---- MODULE Spec2Model ----
(***************************************************************************)
(* The extension registry of ubu (src/ubu/runtime/extensions.py) and the   *)
(* event queue it dispatches on (src/ubu/runtime/event.py), as a stack     *)
(* machine: the program is single threaded, and a listener called during   *)
(* a dispatch may call back into the registry, so every call in progress   *)
(* is a frame of `stack` and only the top frame takes a step.              *)
(***************************************************************************)
EXTENDS Integers, Sequences, FiniteSets, TLC

(* ------------------------------ bounds --------------------------------- *)

\* Calls of the registry's API begun in one run, top-level and re-entrant.
MaxCalls == 5
\* Calls begun from inside a listener (re-entrant calls) in one run.
MaxNested == 1
\* Calls of PluginLoader.load in one run.
MaxLoads == 3
\* Calls of PluginMeta.include in one run.
MaxIncludes == 3
\* Plugin instances constructed in one run.
MaxConstructs == 2
\* Calls of EventQueue.bind_listener in one run.
MaxBinds == 2
\* The length of the events_list given to bind_listener.
MaxEvents == 2

(* --------------------------- the environment --------------------------- *)

None == "None"

Uuids == {"E1", "E2"}

\* ubu.constants.BUILTIN_PLUGIN_UUID, the pack UUID reserved for the builtin plugin.
BUILTIN_PLUGIN_UUID == "uuid-builtin"

\* Plugin instances that call the registry; pack_uuid is PluginBase.pack_uuid.
Plugins == {"pb", "p2"}
pack_uuid(plugin) == IF plugin = "pb" THEN BUILTIN_PLUGIN_UUID ELSE "uuid-p2"

\* Names of the instances the injector constructs for the class "T", in order.
FreshNames == <<"T1", "T2", "T3", "T4", "T5", "T6", "T7", "T8">>

\* Python classes of the objects, with their bases (the class itself first).
Mro(class) ==
    CASE class = "Sprite" -> {"Sprite", "Drawable"}
      [] class = "Circle" -> {"Circle", "Shape"}
      [] OTHER -> {class}

\* What the registry reads of an object: whether it is a class to be resolved
\* by the injector, its class, the class it wraps (a WrappedClass), whether it
\* has a teardown method, its __endpoint__ (a UUID or a tuple of UUIDs) and its
\* name attribute.
ObjAttrs(obj) ==
    CASE obj = "B" ->
           [is_type |-> FALSE, class |-> "Drawable", klass |-> None,
            teardown |-> TRUE, endpoint |-> <<>>, name |-> "B"]
      [] obj = "obj2" ->
           [is_type |-> FALSE, class |-> "Sprite", klass |-> None,
            teardown |-> TRUE, endpoint |-> <<"E1">>, name |-> None]
      [] obj = "multi" ->
           [is_type |-> FALSE, class |-> "Drawable", klass |-> None,
            teardown |-> TRUE, endpoint |-> <<"E1", "E2">>, name |-> "B"]
      [] obj \in {"w1", "w2"} ->   \* two WrappedClass objects of the same class
           [is_type |-> FALSE, class |-> "WrappedClass", klass |-> "Circle",
            teardown |-> FALSE, endpoint |-> <<>>, name |-> "Circle"]
      [] obj = "T" ->
           [is_type |-> TRUE, class |-> "type", klass |-> None,
            teardown |-> FALSE, endpoint |-> <<>>, name |-> None]
      [] obj = "Service" ->   \* a class decorated with @app_scope
           [is_type |-> TRUE, class |-> "type", klass |-> None,
            teardown |-> FALSE, endpoint |-> <<"E2">>, name |-> None]
      [] obj = "service" ->   \* the application-scope singleton of Service
           [is_type |-> FALSE, class |-> "Service", klass |-> None,
            teardown |-> TRUE, endpoint |-> <<"E2">>, name |-> None]
      [] OTHER ->   \* an instance of the class "T"
           [is_type |-> FALSE, class |-> "Other", klass |-> None,
            teardown |-> FALSE, endpoint |-> <<>>, name |-> None]

Range(s) == {s[i] : i \in 1..Len(s)}

(* ------------------------------ Endpoint ------------------------------- *)

\* The Endpoint values add_endpoint is called with. include_condition names an
\* explicit predicate; builtins is what the builtins provider returns.
EpDrawable ==
    [uuid |-> "E1", include_condition |-> None, instance_class |-> "Drawable",
     wrapped_subclass |-> None, builtins |-> <<"B">>]
EpAll ==
    [uuid |-> "E2", include_condition |-> None, instance_class |-> None,
     wrapped_subclass |-> None, builtins |-> <<"T">>]
EpWrapped ==
    [uuid |-> "E1", include_condition |-> None, instance_class |-> None,
     wrapped_subclass |-> "Shape", builtins |-> <<>>]
EndpointCatalog == {EpDrawable, EpAll, EpWrapped}

\* Variant: instance_class is looked at before the explicit predicate.
EffectiveConditionClassFirst(info) ==
    IF info.instance_class # None THEN "isinstance"
    ELSE IF info.include_condition # None THEN info.include_condition
    ELSE IF info.wrapped_subclass # None THEN "issubclass_klass"
    ELSE "accept_all"

\* Endpoint.__attrs_post_init__: the predicate the endpoint ends up with.
EffectiveCondition(info) ==
    IF info.include_condition # None THEN info.include_condition
    ELSE IF info.instance_class # None THEN "isinstance"
    ELSE IF info.wrapped_subclass # None THEN "issubclass_klass"
    ELSE "accept_all"

\* include_condition(obj): "True", "False", or "raise" when the predicate raises
\* (x.klass of an object that wraps no class).
IncludeCondition(info, obj) ==
    LET c == EffectiveCondition(info)
        a == ObjAttrs(obj)
    IN  CASE c = "isinstance" ->
               IF info.instance_class \in Mro(a.class) THEN "True" ELSE "False"
          [] c = "issubclass_klass" ->
               IF a.klass = None THEN "raise"
               ELSE IF info.wrapped_subclass \in Mro(a.klass) THEN "True" ELSE "False"
          [] c = "accept_all" -> "True"
          [] c = "has_teardown" -> IF a.teardown THEN "True" ELSE "False"
          [] OTHER -> "False"

(* ------------------------------ Extension ------------------------------ *)

\* Extension.name
ExtensionName(obj) ==
    IF ObjAttrs(obj).name # None THEN ObjAttrs(obj).name ELSE ObjAttrs(obj).class

\* Variant: the _delayed_builtin argument is not passed on to the Extension.
MakeExtensionAlwaysFromPlugin(info, obj, plugin, delayed_builtin) ==
    [endpoint |-> info.uuid, obj |-> obj, plugin |-> plugin, from_plugin |-> TRUE]

MakeExtension(info, obj, plugin, delayed_builtin) ==
    [endpoint |-> info.uuid, obj |-> obj, plugin |-> plugin,
     from_plugin |-> ~delayed_builtin]


NoExtension == [endpoint |-> None, obj |-> None, plugin |-> None, from_plugin |-> FALSE]

(* --------------------------- _EndpointStorage -------------------------- *)

EmptyDict == [k \in {} |-> None]

DictPut(d, k, v) == [x \in (DOMAIN d) \cup {k} |-> IF x = k THEN v ELSE d[x]]

\* _EndpointStorage.__init__
NewStorage(info) ==
    [info |-> info, extensions |-> <<>>, extension_objects_list |-> <<>>,
     extension_objects_dict |-> EmptyDict, extension_obj_ids_set |-> {}]

\* Variant: a WrappedClass is told apart by the wrapper, not by the class.
ObjIdOfWrapper(obj) == obj

\* The identity _EndpointStorage.add_extension deduplicates on.
ObjId(obj) ==
    IF "WrappedClass" \in Mro(ObjAttrs(obj).class) THEN ObjAttrs(obj).klass ELSE obj

\* Variant: the duplicate check is missing.
StorageNeverRejects(st, ext) == FALSE

\* _EndpointStorage.add_extension raises: the identity was seen already.
StorageRejects(st, ext) == ObjId(ext.obj) \in st.extension_obj_ids_set

\* Variant: the extension is inserted at the front of the sequence.
StoragePrependExtension(st, ext) ==
    [st EXCEPT !.extension_obj_ids_set = @ \cup {ObjId(ext.obj)},
               !.extensions = <<ext>> \o @,
               !.extension_objects_list = <<ext.obj>> \o @,
               !.extension_objects_dict = DictPut(@, ExtensionName(ext.obj), ext.obj)]

\* Variant: the extension sequence is not appended to.
StorageSkipsExtensions(st, ext) ==
    [st EXCEPT !.extension_obj_ids_set = @ \cup {ObjId(ext.obj)},
               !.extension_objects_list = Append(@, ext.obj),
               !.extension_objects_dict = DictPut(@, ExtensionName(ext.obj), ext.obj)]

\* Variant: a name that is in the name map already keeps its object.
StorageKeepsFirstName(st, ext) ==
    [st EXCEPT !.extension_obj_ids_set = @ \cup {ObjId(ext.obj)},
               !.extensions = Append(@, ext),
               !.extension_objects_list = Append(@, ext.obj),
               !.extension_objects_dict =
                   IF ExtensionName(ext.obj) \in DOMAIN @ THEN @
                   ELSE DictPut(@, ExtensionName(ext.obj), ext.obj)]

\* _EndpointStorage.add_extension, when it does not raise.
StorageAddExtension(st, ext) ==
    [st EXCEPT !.extension_obj_ids_set = @ \cup {ObjId(ext.obj)},
               !.extensions = Append(@, ext),
               !.extension_objects_list = Append(@, ext.obj),
               !.extension_objects_dict = DictPut(@, ExtensionName(ext.obj), ext.obj)]

(* ------------------------------- state --------------------------------- *)

VARIABLES
    endpoints,             \* Extensions.endpoints: UUID -> _EndpointStorage
    builtin_extensions,    \* Extensions._builtin_extensions: (obj, endpoint_uuid) pairs
    builtin_has_init,      \* Extensions._builtin_has_init
    teardown_objs,         \* Extensions._teardown_objs, in insertion order
    subscription_handles,  \* Extensions._subscription_handles
    listeners,             \* the event queue's listeners of EXTENSION_REGISTERED
    instances,             \* how many instances of "T" the injector has constructed
    hashOrder,             \* the order in which a set of UUIDs is iterated
    stack,                 \* the calls in progress, innermost last
    ncalls,                \* calls begun so far
    nnested,               \* calls begun from inside a listener so far
    got,                   \* per listener handle: the extensions its callable was given
    dispatched,            \* the EXTENSION_REGISTERED dispatches, in order
    initLog,               \* per init_builtin_extensions call: outcome, extensions stored
    early_add,             \* a plugin called add_extension before init_builtin_extensions was over
    torn,                  \* the objects whose teardown Extensions.teardown has called
    last                   \* the call that finished in the last step, as its frame

\* The injector's singleton scopes (src/ubu/injector/scopes.py).
VARIABLES
    bindings,              \* per injector: the classes its binder holds a binding for
    scopes,                \* <<scope class, injector>> -> _context, in insertion order
    scopeLast              \* the last call on an injector or a scope, and what it did

scopevars == <<bindings, scopes, scopeLast>>

\* The plugin loader (src/ubu/runtime/plugin_loading.py).
VARIABLES
    sys_modules,           \* sys.modules: qualified name -> the module bound to it
    pack_plugin,           \* per pack: pack.plugin
    class_pack,            \* per plugin class: its __PACK__
    loading,               \* the load in progress: its locals and where it stands
    loaded,                \* what the loads did so far: modules executed, plugin
                           \* instances constructed, PLUGIN_LOADED_ONE dispatched
    nloads,                \* calls of load begun so far
    loadLast               \* the load that ended in the last step

loadervars == <<sys_modules, pack_plugin, class_pack, loading, loaded, nloads, loadLast>>

\* The plugin classes and their instances (src/ubu/runtime/plugin_base.py).
VARIABLES
    included,              \* per class of metaclass PluginMeta: cls.included
    constructed            \* the constructions of plugin instances begun so far, and
                           \* the add_extension calls each has made

pluginvars == <<included, constructed>>

\* An Endpoint on its own: its construction and its predicate.
VARIABLES
    made,                  \* the Endpoint constructed last
    verdict                \* the last call of its include_condition, and the result

epvars == <<made, verdict>>

\* EventQueue.bind_listener and unbind_listener (src/ubu/runtime/event.py).
VARIABLES
    eq_listeners,          \* the listeners appended by bind_listener, by handle
    nbinds,                \* calls of bind_listener begun so far
    bindLast               \* the last call of bind_listener or unbind_listener

eqvars == <<eq_listeners, nbinds, bindLast>>

auxvars == <<epvars, eqvars>>

regvars == <<endpoints, builtin_extensions, builtin_has_init, teardown_objs,
             subscription_handles>>
vars == <<endpoints, builtin_extensions, builtin_has_init, teardown_objs,
          subscription_handles, listeners, instances, hashOrder, stack, ncalls,
          nnested, got, dispatched, initLog, early_add, torn, last, scopevars,
          loadervars, pluginvars, auxvars>>

\* The state of the extension registry and of the event queue.
appvars == <<endpoints, builtin_extensions, builtin_has_init, teardown_objs,
             subscription_handles, listeners, instances, hashOrder, stack, ncalls,
             nnested, got, dispatched, initLog, early_add, torn, last, pluginvars,
             auxvars>>

\* A frame of the stack: the locals of one call in progress. op names the
\* function; the other fields are the locals of whichever function it is.
Frame0 ==
    [op |-> "none", outcome |-> "running", error |-> None,
     plugin |-> None, raw |-> None, obj |-> None, hint |-> <<>>,
     todo |-> <<>>, found_endpoint |-> FALSE, delayed_builtin |-> FALSE,
     idx |-> 0, endpoint |-> None, cb |-> None, call_with_existing |-> FALSE,
     ext |-> NoExtension, rest |-> <<>>, info |-> None,
     \* what the call has done so far, for the properties
     stored |-> {}, delivered |-> <<>>, pre |-> <<>>, lsn0 |-> 0, call |-> 0,
     depth |-> 0, warned |-> FALSE, torn_down |-> <<>>, failed |-> {}]

Top == stack[Len(stack)]
Pop == SubSeq(stack, 1, Len(stack) - 1)

(* --------------------- injectors, classes, scopes ---------------------- *)

\* The injectors: the one create_app_injector returns, a child of it that
\* create_job_injector returns, and the one create_process_worker_injector returns.
Injectors == {"app", "job", "worker"}

\* injector.parent
Parent(inj) == IF inj = "job" THEN "app" ELSE None

APP_INJECTOR_FLAG == "__APP_INJECTOR__"
JOB_INJECTOR_FLAG == "__JOB_INJECTOR__"
PROCESS_WORKER_INJECTOR_FLAG == "__PROCESS_WORKER_INJECTOR__"

\* The attribute each create_*_injector function sets on the injector it returns.
InjectorFlags(inj) ==
    CASE inj = "app" -> {APP_INJECTOR_FLAG}
      [] inj = "job" -> {JOB_INJECTOR_FLAG}
      [] inj = "worker" -> {PROCESS_WORKER_INJECTOR_FLAG}

ScopeClasses == {"AppScope", "JobScope", "ProcessWorkerScope"}

\* The classes resolved through the injectors: the scope each is decorated
\* with, whether its instances have a teardown method, and the classes its
\* constructor is injected with (singletons of the same scope).
ClassAttrs(cls) ==
    CASE cls = "Extensions" ->
           [scope |-> "AppScope", teardown |-> TRUE, deps |-> <<"EventQueue">>]
      [] cls = "EventQueue" ->
           [scope |-> "AppScope", teardown |-> FALSE, deps |-> <<>>]
      [] cls = "AppInfo" ->
           [scope |-> "AppScope", teardown |-> FALSE, deps |-> <<>>]
      [] cls = "Service" ->   \* a class of a plugin, decorated with @app_scope
           [scope |-> "AppScope", teardown |-> TRUE, deps |-> <<>>]
      [] cls = "JobA" ->
           [scope |-> "JobScope", teardown |-> TRUE, deps |-> <<>>]
      [] cls = "JobB" ->
           [scope |-> "JobScope", teardown |-> TRUE, deps |-> <<>>]
      [] cls = "JobC" ->
           [scope |-> "JobScope", teardown |-> TRUE, deps |-> <<>>]
      [] cls = "JobD" ->
           [scope |-> "JobScope", teardown |-> FALSE, deps |-> <<>>]
      [] cls = "WorkerA" ->
           [scope |-> "ProcessWorkerScope", teardown |-> TRUE, deps |-> <<>>]

Classes == {"Extensions", "EventQueue", "AppInfo", "Service",
            "JobA", "JobB", "JobC", "JobD", "WorkerA"}

\* The bindings the injectors' modules configure: AppModule.provide_app_info.
ExplicitBindings(inj) == IF inj = "app" THEN {"AppInfo"} ELSE {}

ScopeOp0 ==
    [op |-> "none", injector |-> None, cls |-> None, scope |-> <<>>,
     outcome |-> "none", error |-> None, created |-> <<>>, invoked |-> <<>>,
     failing |-> {}]

(* ------------------------- packs and their modules --------------------- *)

\* The packs load is called with. Of each: what LoadingProcess.__init__ reads
\* (md.uuid, md.is_plugin, whether pack.path and md.plugin are set,
\* md.plugin.module_name, whether path/__init__.py exists) and what its entry
\* file does when it is executed: whether exec_module raises, and the
\* __plugin__ the module ends up with (a subclass of PluginBase, another
\* object, or none).
PackAttrs(pack) ==
    LET valid == [uuid |-> <<"uuid", pack>>, is_plugin |-> TRUE, path |-> TRUE,
                  plugin |-> TRUE, module_name |-> pack, exists |-> TRUE,
                  exec_raises |-> FALSE, plugin_class |-> None]
    IN CASE pack = "alpha" -> [valid EXCEPT !.plugin_class = "AlphaPlugin"]
         [] pack = "beta" -> [valid EXCEPT !.plugin_class = "BetaPlugin"]
         \* another pack that names the module of "alpha"
         [] pack = "alpha_twin" ->
              [valid EXCEPT !.module_name = "alpha", !.plugin_class = "TwinPlugin"]
         \* its entry file raises when it is executed
         [] pack = "broken" -> [valid EXCEPT !.exec_raises = TRUE]
         \* its entry file sets __plugin__ to something that is no plugin class
         [] pack = "untyped" -> [valid EXCEPT !.plugin_class = "NotAPlugin"]
         [] pack = "data" ->
              [valid EXCEPT !.is_plugin = FALSE, !.plugin = FALSE,
                            !.module_name = None, !.exists = FALSE]
         [] pack = "nopath" -> [valid EXCEPT !.path = FALSE, !.exists = FALSE]
         [] pack = "noconfig" -> [valid EXCEPT !.plugin = FALSE, !.module_name = None]
         [] pack = "noname" -> [valid EXCEPT !.module_name = None]
         [] pack = "nofile" -> [valid EXCEPT !.exists = FALSE]

Packs == {"alpha", "beta", "alpha_twin", "broken", "untyped", "data", "nopath",
          "noconfig", "noname", "nofile"}

\* The classes that are subclasses of PluginBase.
PluginClasses == {"AlphaPlugin", "BetaPlugin", "TwinPlugin"}

\* No Endpoint constructed yet, and no call of a predicate.
NoEndpoint ==
    [uuid |-> None, include_condition |-> None, instance_class |-> None,
     wrapped_subclass |-> None, builtins |-> <<>>]

NoVerdict == [obj |-> None, result |-> None]

\* No call of bind_listener or unbind_listener yet.
BindOp0 ==
    [op |-> "none", obj |-> None, events_list |-> <<>>, order |-> <<>>,
     outcome |-> "none", error |-> None, handles |-> <<>>, listeners0 |-> 0]

\* The classes created by PluginMeta, each with its bases (the class first).
PluginMro(cls) ==
    CASE cls = "PluginBase" -> <<"PluginBase">>
      [] cls = "AlphaPlugin" -> <<"AlphaPlugin", "PluginBase">>
      [] cls = "BetaPlugin" -> <<"BetaPlugin", "AlphaPlugin", "PluginBase">>
      [] cls = "TwinPlugin" -> <<"TwinPlugin", "PluginBase">>

MetaClasses == PluginClasses \cup {"PluginBase"}

\* The instances of a plugin class, in the order of their construction.
PluginInstances(cls) ==
    CASE cls = "AlphaPlugin" -> <<"alpha#1", "alpha#2", "alpha#3">>
      [] cls = "BetaPlugin" -> <<"beta#1", "beta#2", "beta#3">>
      [] cls = "TwinPlugin" -> <<"twin#1", "twin#2", "twin#3">>

\* The objects plugins declare with include.
IncludeObjects == {"obj2", "B"}

\* self.qmod_name = f'ubuplugin.{self.mod_name}'
qmod_name(mod_name) == <<"ubuplugin", mod_name>>

\* pack.plugin of a pack that has no plugin instance (its default, None).
NoPlugin == [cls |-> None, pack |-> None, n |-> 0]

Loaded0 == [execs |-> <<>>, instances |-> <<>>, events |-> <<>>]

Idle == [stage |-> "idle", pack |-> None, plugin_class |-> None, steps |-> <<>>,
         loaded0 |-> Loaded0]

LoadOp0 == [op |-> "none", pack |-> None, outcome |-> "none", error |-> None,
            skipped |-> FALSE, steps |-> <<>>, loaded0 |-> Loaded0]

Init ==
    /\ endpoints = [u \in {} |-> None]         \* make_app_endpoints() returns []
    /\ builtin_extensions = <<>>
    /\ builtin_has_init = FALSE
    /\ teardown_objs = <<>>
    /\ subscription_handles = <<>>
    /\ listeners = <<>>
    /\ instances = 0
    /\ hashOrder \in {<<"E1", "E2">>, <<"E2", "E1">>}
    /\ stack = <<>>
    /\ ncalls = 0
    /\ nnested = 0
    /\ got = <<>>
    /\ dispatched = <<>>
    /\ initLog = <<>>
    /\ early_add = FALSE
    /\ torn = <<>>
    /\ last = Frame0
    /\ bindings = [inj \in Injectors |-> ExplicitBindings(inj)]
    /\ scopes = [s \in {} |-> <<>>]
    /\ scopeLast = ScopeOp0
    /\ sys_modules = [q \in {} |-> None]
    /\ pack_plugin = [pack \in Packs |-> NoPlugin]
    /\ class_pack = [c \in PluginClasses |-> None]
    /\ loading = Idle
    /\ loaded = Loaded0
    /\ nloads = 0
    /\ loadLast = LoadOp0
    /\ included = [cls \in MetaClasses |-> <<>>]   \* PluginMeta.__init__
    /\ constructed = <<>>
    /\ made = NoEndpoint
    /\ verdict = NoVerdict
    /\ eq_listeners = <<>>
    /\ nbinds = 0
    /\ bindLast = BindOp0


(* ----------------------- calls, returns, raises ------------------------ *)

\* The inputs the API is called with.
AddCalls ==
    { [plugin |-> "p2", obj |-> "obj2",  hint |-> <<>>],
      [plugin |-> "pb", obj |-> "multi", hint |-> <<>>],
      [plugin |-> "p2", obj |-> "B",     hint |-> <<"E1">>],
      [plugin |-> "pb", obj |-> "obj2",  hint |-> <<"E2">>],
      [plugin |-> "p2", obj |-> "T",     hint |-> <<"E2">>],
      [plugin |-> "p2", obj |-> "B",     hint |-> <<"E2">>],
      [plugin |-> "p2", obj |-> "B",     hint |-> <<>>] }

\* Calls of add_extension with a WrappedClass object.
WrappedCalls ==
    { [plugin |-> "p2", obj |-> "w1", hint |-> <<"E1">>],
      [plugin |-> "p2", obj |-> "w2", hint |-> <<"E1">>] }

\* The callables given to subscribe: "passive" only takes the extension,
\* "reentrant" may call the registry again while it runs.
Callbacks == {"passive", "reentrant"}

\* A call can begin at top level, or from a running re-entrant callable.
CanCall ==
    /\ ncalls < MaxCalls
    /\ \/ stack = <<>>
       \/ /\ stack # <<>>
          /\ Top.op = "callback"
          /\ Top.cb = "reentrant"
          /\ nnested < MaxNested

Count ==
    /\ ncalls' = ncalls + 1
    /\ nnested' = IF stack = <<>> THEN nnested ELSE nnested + 1

InitFrames(frames) ==
    {frames[i].call : i \in {j \in 1..Len(frames) : frames[j].op = "init_builtin_extensions"}}

\* The call f returns normally to the frame below it.
Return(f) ==
    /\ stack' = Pop
    /\ last' = [f EXCEPT !.outcome = "ok"]

\* The call f, made from the frames `base`, raises. No function of the registry
\* or of the event queue catches: the exception unwinds to the top level, or to
\* a callable on the way that catches it and goes on.
Raise(base, f, err, log) ==
    \E k \in {0} \cup {i \in 1..Len(base) : base[i].op = "callback"} :
        LET gone == InitFrames(SubSeq(base, k + 1, Len(base))) \cup InitFrames(<<f>>)
        IN  /\ stack' = SubSeq(base, 1, k)
            /\ initLog' = [i \in DOMAIN log |->
                             IF i \in gone THEN [log[i] EXCEPT !.outcome = "raised"]
                             ELSE log[i]]
            /\ last' = [f EXCEPT !.outcome = "raised", !.error = err]

(* --------------------- Extensions._find_object_endpoints --------------- *)

\* Variant: the object's own __endpoint__ is ignored.
FindObjectEndpointsHintOnly(obj, uuids) == Range(uuids)

\* The set of UUIDs to check: the hint united with the object's __endpoint__.
FindObjectEndpoints(obj, uuids) == Range(uuids) \cup Range(ObjAttrs(obj).endpoint)

\* for endpoint_uuid in endpoints_to_check: the set in its iteration order.
IterationOrder(set) == SelectSeq(hashOrder, LAMBDA u : u \in set)

(* ------------------------ Extensions.add_extension --------------------- *)

\* The classes decorated with @app_scope that add_extension is called with.
ScopedClasses == {"Service"}

\* The singleton the application scope holds for a class.
AppSingleton(cls) == IF cls = "Service" THEN "service" ELSE cls

\* injector.get(obj) for a class: the singleton of a class decorated with
\* @app_scope, a new instance of any other class.
InjectorGet(raw) ==
    IF raw \in ScopedClasses THEN AppSingleton(raw) ELSE FreshNames[instances + 1]

\* Variant: an object with a teardown method is recorded at every call.
TracksTeardownAgain(obj) == ObjAttrs(obj).teardown

\* hasattr(obj, 'teardown') and id(obj) not in self._teardown_objs
TracksTeardown(obj) == ObjAttrs(obj).teardown /\ obj \notin Range(teardown_objs)

\* Lines 226-229: the object is tracked already, which is logged as a warning.
WarnsTrackedAlready(obj) == ObjAttrs(obj).teardown /\ obj \in Range(teardown_objs)

\* Lines 222-234: the call up to its loop over the endpoints to check.
EntryAddExtension(base, plugin, raw, hint, delayed_builtin, call, log) ==
    LET obj == IF ObjAttrs(raw).is_type THEN InjectorGet(raw) ELSE raw
        f == [Frame0 EXCEPT !.op = "add_extension", !.plugin = plugin,
                            !.raw = raw, !.obj = obj, !.hint = hint,
                            !.todo = IterationOrder(FindObjectEndpoints(obj, hint)),
                            !.delayed_builtin = delayed_builtin, !.call = call,
                            !.lsn0 = Len(listeners), !.depth = Len(base),
                            !.warned = WarnsTrackedAlready(obj)]
    IN  /\ instances' = IF ObjAttrs(raw).is_type /\ raw \notin ScopedClasses
                        THEN instances + 1 ELSE instances
        /\ teardown_objs' = IF TracksTeardown(obj) THEN Append(teardown_objs, obj)
                            ELSE teardown_objs
        /\ stack' = Append(base, f)
        /\ initLog' = log
        /\ last' = Frame0

AddExtension ==
    /\ CanCall
    /\ Count
    /\ \E c \in AddCalls :
          EntryAddExtension(stack, c.plugin, c.obj, c.hint, FALSE, 0, initLog)
    /\ early_add' = (early_add \/ ~builtin_has_init \/ InitFrames(stack) # {})
    /\ UNCHANGED <<endpoints, builtin_extensions, builtin_has_init,
                   subscription_handles, listeners, hashOrder, scopevars, loadervars, auxvars, pluginvars, got, dispatched, torn>>

\* add_extension called with an object that wraps a class.
AddWrapped ==
    /\ CanCall
    /\ Count
    /\ \E c \in WrappedCalls :
          EntryAddExtension(stack, c.plugin, c.obj, c.hint, FALSE, 0, initLog)
    /\ early_add' = (early_add \/ ~builtin_has_init \/ InitFrames(stack) # {})
    /\ UNCHANGED <<endpoints, builtin_extensions, builtin_has_init,
                   subscription_handles, listeners, hashOrder, scopevars, loadervars, auxvars, pluginvars, got, dispatched, torn>>

\* The listeners a dispatch beginning now will visit: those appended so far.
DispatchSnapshot == [i \in 1..Len(listeners) |-> i]

DispatchFrame(ext, depth) ==
    [Frame0 EXCEPT !.op = "dispatch", !.endpoint = ext.endpoint, !.ext = ext,
                   !.rest = DispatchSnapshot, !.depth = depth]

\* One turn of the loop of lines 236-251, or the end of the call.
AddExtensionStep ==
    /\ stack # <<>>
    /\ Top.op = "add_extension"
    /\ LET f == Top
           u == Head(f.todo)
           g == [f EXCEPT !.todo = Tail(@)]
       IN  IF f.todo = <<>>
           THEN /\ Return(f)
                /\ UNCHANGED <<endpoints, dispatched, initLog>>
           ELSE IF u \notin DOMAIN endpoints
           THEN /\ Raise(Pop, f, "ValueError", initLog)
                /\ UNCHANGED <<endpoints, dispatched>>
           ELSE LET st == endpoints[u]
                    inc == IncludeCondition(st.info, f.obj)
                    ext == MakeExtension(st.info, f.obj, f.plugin, f.delayed_builtin)
                IN  IF inc = "raise"
                    THEN /\ Raise(Pop, f, "AttributeError", initLog)
                         /\ UNCHANGED <<endpoints, dispatched>>
                    ELSE IF inc = "False"
                    THEN /\ stack' = Append(Pop, g)
                         /\ last' = Frame0
                         /\ UNCHANGED <<endpoints, dispatched, initLog>>
                    ELSE IF StorageRejects(st, ext)
                    THEN /\ Raise(Pop, f, "RuntimeError", initLog)
                         /\ UNCHANGED <<endpoints, dispatched>>
                    ELSE /\ endpoints' = [endpoints EXCEPT ![u] = StorageAddExtension(st, ext)]
                         /\ dispatched' = Append(dispatched, ext)
                         /\ stack' = Append(Append(Pop,
                                [g EXCEPT !.found_endpoint = TRUE, !.stored = @ \cup {u}]),
                                DispatchFrame(ext, Len(stack)))
                         /\ initLog' = IF f.delayed_builtin
                                       THEN [initLog EXCEPT ![f.call].stored = @ + 1]
                                       ELSE initLog
                         /\ last' = Frame0
    /\ UNCHANGED <<builtin_extensions, builtin_has_init, teardown_objs,
                   subscription_handles, listeners, instances, hashOrder, scopevars, loadervars, auxvars, pluginvars, ncalls,
                   nnested, got, early_add, torn>>

(* ------------------- EventQueue.dispatch and the wrapper --------------- *)

\* Variant: the wrapper does not filter on the endpoint.
WrapperPassesAll(endpoint, endpoint_) == TRUE

\* Extensions.subscribe.wrapper: whether it passes the extension on.
WrapperPasses(endpoint, endpoint_) == endpoint = endpoint_

CallbackFrame(cb, ext, depth) ==
    [Frame0 EXCEPT !.op = "callback", !.cb = cb, !.ext = ext,
                   !.endpoint = ext.endpoint, !.depth = depth]

\* The dispatch calls its next listener, or ends.
DispatchStep ==
    /\ stack # <<>>
    /\ Top.op = "dispatch"
    /\ LET f == Top
           h == Head(f.rest)
           g == [f EXCEPT !.rest = Tail(@)]
       IN  IF f.rest = <<>>
           THEN /\ stack' = Pop
                /\ got' = got
           ELSE IF listeners[h].removed \/ ~WrapperPasses(listeners[h].endpoint, f.endpoint)
           THEN /\ stack' = Append(Pop, g)
                /\ got' = got
           ELSE /\ stack' = Append(Append(Pop, g),
                                   CallbackFrame(listeners[h].cb, f.ext, Len(stack)))
                /\ got' = [got EXCEPT ![h] = Append(@, f.ext)]
    /\ last' = Frame0
    /\ UNCHANGED <<regvars, listeners, instances, hashOrder, scopevars, loadervars, auxvars, pluginvars, ncalls, nnested,
                   dispatched, initLog, early_add, torn>>

\* The callable given to subscribe returns.
CallbackReturn ==
    /\ stack # <<>>
    /\ Top.op = "callback"
    /\ stack' = Pop
    /\ last' = Frame0
    /\ UNCHANGED <<regvars, listeners, instances, hashOrder, scopevars, loadervars, auxvars, pluginvars, ncalls, nnested, got,
                   dispatched, initLog, early_add, torn>>


(* -------------------------- Extensions.subscribe ----------------------- *)

\* Variant: the test is len(...) > 1.
HasExistingOffByOne(endpoint) ==
    endpoint \in DOMAIN endpoints /\ Len(endpoints[endpoint].extensions) > 1

\* Variant: an endpoint is never found to have extensions already.
HasExistingNever(endpoint) == FALSE

\* Line 309: the endpoint is registered and already has extensions.
HasExisting(endpoint) ==
    endpoint \in DOMAIN endpoints /\ Len(endpoints[endpoint].extensions) > 0

\* Lines 299-313: the call up to its loop over the existing extensions.
Subscribe ==
    /\ CanCall
    /\ Count
    /\ \E e \in Uuids, cb \in Callbacks, existing \in BOOLEAN :
          LET f == [Frame0 EXCEPT !.op = "subscribe", !.endpoint = e, !.cb = cb,
                                  !.call_with_existing = existing,
                                  !.found_endpoint = HasExisting(e),
                                  !.pre = IF e \in DOMAIN endpoints
                                          THEN endpoints[e].extensions ELSE <<>>,
                                  !.idx = 1, !.depth = Len(stack)]
          IN  IF HasExisting(e) /\ ~existing
              THEN Raise(stack, f, "RuntimeError", initLog)
              ELSE /\ stack' = Append(stack, f)
                   /\ last' = Frame0
                   /\ UNCHANGED initLog
    /\ UNCHANGED <<regvars, listeners, instances, hashOrder, scopevars, loadervars, auxvars, pluginvars, got, dispatched,
                   early_add, torn>>

\* self.eq.appendListener(Event.EXTENSION_REGISTERED, wrapper)
AppendListener(endpoint, cb) ==
    Append(listeners, [endpoint |-> endpoint, cb |-> cb, removed |-> FALSE])

\* Variant: a dispatch in progress also visits a listener appended meanwhile.
DispatchesSeeAppended(frames, handle) ==
    [k \in 1..Len(frames) |->
        IF frames[k].op = "dispatch" THEN [frames[k] EXCEPT !.rest = Append(@, handle)]
        ELSE frames[k]]

\* The calls in progress once appendListener has added a listener: a dispatch
\* that is under way goes on with the listeners it began with.
DispatchesAfterAppend(frames, handle) == frames

\* One turn of the loop of lines 314-318, or lines 320-330: the listener is
\* appended and the call returns.
SubscribeStep ==
    /\ stack # <<>>
    /\ Top.op = "subscribe"
    /\ LET f == Top
           exts == endpoints[f.endpoint].extensions
       IN  IF f.found_endpoint /\ f.idx <= Len(exts)
           THEN /\ stack' = Append(Append(Pop,
                        [f EXCEPT !.idx = @ + 1, !.delivered = Append(@, exts[f.idx])]),
                        CallbackFrame(f.cb, exts[f.idx], Len(stack)))
                /\ last' = Frame0
                /\ UNCHANGED <<listeners, subscription_handles, got>>
           ELSE /\ listeners' = AppendListener(f.endpoint, f.cb)
                /\ subscription_handles' = Append(subscription_handles, Len(listeners) + 1)
                /\ got' = Append(got, f.delivered)
                /\ stack' = DispatchesAfterAppend(Pop, Len(listeners) + 1)
                /\ last' = [f EXCEPT !.outcome = "ok"]
    /\ UNCHANGED <<endpoints, builtin_extensions, builtin_has_init, teardown_objs,
                   instances, hashOrder, scopevars, loadervars, auxvars, pluginvars, ncalls, nnested, dispatched, initLog,
                   early_add, torn>>

(* ------------------ Extensions.init_builtin_extensions ----------------- *)

\* Line 257: the check of the plugin's pack UUID.
InitRejectsPlugin(builtin_plugin) == pack_uuid(builtin_plugin) = BUILTIN_PLUGIN_UUID

\* Lines 257-260: the checks before the loop.
InitBuiltinExtensions ==
    /\ CanCall
    /\ Count
    /\ \E p \in Plugins :
          LET f == [Frame0 EXCEPT !.op = "init_builtin_extensions", !.plugin = p,
                                  !.idx = 1, !.call = Len(initLog) + 1,
                                  !.depth = Len(stack)]
              log == Append(initLog,
                       [outcome |-> "running", stored |-> 0, plugin |-> p,
                        \* an earlier call has completed, or is still in progress
                        second |-> \E i \in DOMAIN initLog :
                                      initLog[i].outcome \in {"ok", "running"},
                        \* the call got past the checks of lines 257-260
                        entered |-> ~InitRejectsPlugin(p) /\ ~builtin_has_init])
          IN  IF InitRejectsPlugin(p)
              THEN Raise(stack, f, "RuntimeError: wrong UUID", log)
              ELSE IF builtin_has_init
              THEN Raise(stack, f, "RuntimeError: already initialized", log)
              ELSE /\ stack' = Append(stack, f)
                   /\ initLog' = log
                   /\ last' = Frame0
    /\ UNCHANGED <<regvars, listeners, instances, hashOrder, scopevars, loadervars, auxvars, pluginvars, got, dispatched,
                   early_add, torn>>

\* One turn of the loop of lines 261-267, or line 268 and the return.
InitStep ==
    /\ stack # <<>>
    /\ Top.op = "init_builtin_extensions"
    /\ LET f == Top
           b == builtin_extensions[f.idx]
       IN  IF f.idx <= Len(builtin_extensions)
           THEN /\ EntryAddExtension(Append(Pop, [f EXCEPT !.idx = @ + 1]),
                                     f.plugin, b.obj, <<b.endpoint_uuid>>, TRUE,
                                     f.call, initLog)
                /\ UNCHANGED builtin_has_init
           ELSE /\ builtin_has_init' = TRUE
                /\ Return(f)
                /\ initLog' = [initLog EXCEPT ![f.call].outcome = "ok"]
                /\ UNCHANGED <<instances, teardown_objs>>
    /\ UNCHANGED <<endpoints, builtin_extensions, subscription_handles, listeners,
                   hashOrder, scopevars, loadervars, auxvars, pluginvars, ncalls, nnested, got, dispatched, early_add, torn>>

(* ------------------------- Extensions.add_endpoint --------------------- *)

\* Variant: the builtins of the endpoint are not recorded.
DeferBuiltinsDropped(deferred, info) == deferred

\* The deferred list after add_builtin_extension for each builtin of the endpoint.
DeferBuiltins(deferred, info) ==
    deferred \o [i \in 1..Len(info.builtins) |->
                    [obj |-> info.builtins[i], endpoint_uuid |-> info.uuid]]

\* Variant: the check of line 184 is missing.
EndpointExistsNever(uuid) == FALSE

\* Line 184: endpoint.uuid in self.endpoints
EndpointExists(uuid) == uuid \in DOMAIN endpoints

AddEndpoint ==
    /\ CanCall
    /\ Count
    /\ \E info \in EndpointCatalog :
          LET f == [Frame0 EXCEPT !.op = "add_endpoint", !.info = info.uuid,
                                  !.endpoint = info.uuid, !.depth = Len(stack)]
          IN  IF EndpointExists(info.uuid)
              THEN /\ Raise(stack, f, "ValueError", initLog)
                   /\ UNCHANGED <<endpoints, builtin_extensions>>
              ELSE /\ endpoints' = [u \in DOMAIN endpoints \cup {info.uuid} |->
                                      IF u = info.uuid THEN NewStorage(info)
                                      ELSE endpoints[u]]
                   /\ IF info.builtins # <<>> /\ builtin_has_init
                      THEN \* add_builtin_extension raises at the first builtin
                           /\ Raise(stack, f, "RuntimeError", initLog)
                           /\ UNCHANGED builtin_extensions
                      ELSE /\ builtin_extensions' = DeferBuiltins(builtin_extensions, info)
                           /\ last' = [f EXCEPT !.outcome = "ok"]
                           /\ UNCHANGED <<stack, initLog>>
    /\ UNCHANGED <<builtin_has_init, teardown_objs, subscription_handles, listeners,
                   instances, hashOrder, scopevars, loadervars, auxvars, pluginvars, got, dispatched, early_add, torn>>

(* --------------------------- Extensions.teardown ----------------------- *)

Reverse(s) == [i \in 1..Len(s) |-> s[Len(s) + 1 - i]]

\* eq.removeListener for every handle of _subscription_handles.
RemoveListeners(handles) ==
    [h \in 1..Len(listeners) |->
        IF h \in Range(handles) THEN [listeners[h] EXCEPT !.removed = TRUE]
        ELSE listeners[h]]

\* Variant: the exception of a teardown method ends the loop.
TeardownCallsUntilRaise(objs, failing) ==
    LET r == Reverse(objs)
        first == IF \E i \in 1..Len(r) : r[i] \in failing
                 THEN CHOOSE i \in 1..Len(r) :
                        r[i] \in failing /\ \A j \in 1..(i - 1) : r[j] \notin failing
                 ELSE Len(r)
    IN  SubSeq(r, 1, first)

\* Lines 174-178: the objects whose teardown is called, in order; the teardown
\* of those in `failing` raises, which is caught and logged.
TeardownCalls(objs, failing) == Reverse(objs)

Teardown ==
    /\ CanCall
    /\ Count
    /\ \E failing \in SUBSET Range(teardown_objs) :
          /\ listeners' = RemoveListeners(subscription_handles)
          /\ torn' = torn \o TeardownCalls(teardown_objs, failing)
          /\ last' = [Frame0 EXCEPT !.op = "teardown", !.outcome = "ok",
                                    !.depth = Len(stack), !.failed = failing,
                                    !.torn_down = TeardownCalls(teardown_objs, failing)]
    /\ UNCHANGED <<regvars, instances, hashOrder, scopevars, loadervars, auxvars, pluginvars, stack, got, dispatched, initLog,
                   early_add>>

(* ------------------------ PluginMeta and PluginBase -------------------- *)

\* PendingExtension(obj=obj): endpoint_uuid keeps its default, the empty tuple.
PendingExtension(obj) == [obj |-> obj, endpoint_uuid |-> <<>>]

Concat(seqs) ==
    LET RECURSIVE cat(_)
        cat(k) == IF k = 0 THEN <<>> ELSE cat(k - 1) \o seqs[k]
    IN  cat(Len(seqs))

\* Variant: the pending extensions of the bases are taken along with the own.
IncludedAlongMro(cls) ==
    Concat([i \in 1..Len(PluginMro(cls)) |-> included[PluginMro(cls)[i]]])

\* self.included, read through an instance of cls: PluginMeta.__init__ gave
\* every class a list of its own, which hides the lists of its bases.
Included(cls) == included[cls]

\* PluginMeta.include: cls.included.append(PendingExtension(obj=obj)). Plugins
\* declare their extensions while their modules are executed, not from inside
\* a call of the registry.
Include ==
    /\ stack = <<>>
    /\ Len(Concat([i \in 1..Len(PluginMro("BetaPlugin")) |->
                      included[PluginMro("BetaPlugin")[i]]]))
         + Len(included["TwinPlugin"]) < MaxIncludes
    /\ \E cls \in MetaClasses, obj \in IncludeObjects :
          included' = [included EXCEPT ![cls] = Append(@, PendingExtension(obj))]
    /\ last' = Frame0
    /\ UNCHANGED <<regvars, listeners, instances, hashOrder, stack, ncalls, nnested,
                   got, dispatched, initLog, early_add, torn, constructed, scopevars,
                   loadervars, auxvars>>

InstancesOfClass(cls) == {i \in DOMAIN constructed : constructed[i].cls = cls}

\* injector.create_object(plugin_class): the new instance enters
\* PluginBase.__init__.
ConstructPlugin ==
    /\ CanCall
    /\ Count
    /\ \E cls \in PluginClasses :
          /\ Len(constructed) < MaxConstructs
          /\ LET self == PluginInstances(cls)[Cardinality(InstancesOfClass(cls)) + 1]
                 f == [Frame0 EXCEPT !.op = "plugin_init", !.plugin = self,
                                     !.raw = cls, !.idx = 1,
                                     !.call = Len(constructed) + 1,
                                     !.depth = Len(stack)]
             IN  /\ stack' = Append(stack, f)
                 /\ constructed' = Append(constructed,
                        [cls |-> cls, plugin |-> self, declared |-> included[cls],
                         calls |-> <<>>, done |-> FALSE])
    /\ last' = Frame0
    /\ UNCHANGED <<regvars, listeners, instances, hashOrder, got, dispatched, initLog,
                   early_add, torn, included, scopevars, loadervars, auxvars>>

\* One turn of the loop of PluginBase.__init__ (lines 46-47), or its return.
PluginInitStep ==
    /\ stack # <<>>
    /\ Top.op = "plugin_init"
    /\ LET f == Top
           pending == Included(f.raw)[f.idx]
       IN  IF f.idx <= Len(Included(f.raw))
           THEN /\ EntryAddExtension(Append(Pop, [f EXCEPT !.idx = @ + 1]),
                                     f.plugin, pending.obj, pending.endpoint_uuid,
                                     FALSE, f.call, initLog)
                /\ constructed' = [constructed EXCEPT ![f.call].calls = Append(@, pending)]
                /\ early_add' = (early_add \/ ~builtin_has_init \/ InitFrames(stack) # {})
           ELSE /\ Return(f)
                /\ constructed' = [constructed EXCEPT ![f.call].done = TRUE]
                /\ UNCHANGED <<instances, teardown_objs, initLog, early_add>>
    /\ UNCHANGED <<endpoints, builtin_extensions, builtin_has_init, subscription_handles,
                   listeners, hashOrder, ncalls, nnested, got, dispatched, torn,
                   included, scopevars, loadervars, auxvars>>

(* ------------------- an Endpoint and its predicate --------------------- *)

\* The values the three fields of an Endpoint are given.
ExplicitConditions == {None, "has_teardown"}
InstanceClasses == {None, "Drawable", "Shape"}
WrappedSubclasses == {None, "Shape", "Drawable"}

\* The objects a predicate is called with.
CheckObjects == {"B", "obj2", "multi", "w1", "w2", "T1"}

\* Endpoint(...): the fields as given; __attrs_post_init__ then settles the
\* predicate (EffectiveCondition).
MakeEndpoint ==
    /\ \E ic \in ExplicitConditions, cls \in InstanceClasses, ws \in WrappedSubclasses :
          made' = [uuid |-> "E1", include_condition |-> ic, instance_class |-> cls,
                   wrapped_subclass |-> ws, builtins |-> <<>>]
    /\ verdict' = NoVerdict
    /\ UNCHANGED <<regvars, listeners, instances, hashOrder, stack, ncalls, nnested,
                   got, dispatched, initLog, early_add, torn, last, pluginvars,
                   eqvars, scopevars, loadervars>>

\* endpoint.include_condition(obj)
CheckObject ==
    /\ made # NoEndpoint
    /\ \E obj \in CheckObjects :
          verdict' = [obj |-> obj, result |-> IncludeCondition(made, obj)]
    /\ UNCHANGED <<regvars, listeners, instances, hashOrder, stack, ncalls, nnested,
                   got, dispatched, initLog, early_add, torn, last, pluginvars,
                   made, eqvars, scopevars, loadervars>>

(* ---------------- EventQueue.bind_listener, unbind_listener ------------ *)

\* The events listeners are bound to.
Events == {"JOB_START", "JOB_STATUS"}

\* The objects given to bind_listener, and the events for which each has a
\* method on_event_<name>.
BindObjects == {"popup", "status_bar", "resize_handler", "plain"}
Methods(obj) ==
    CASE obj = "popup" -> {"JOB_START", "JOB_STATUS"}
      [] obj = "status_bar" -> {"JOB_STATUS"}
      [] obj = "resize_handler" -> {"JOB_START"}
      [] obj = "plain" -> {}

\* The lists of events bind_listener is called with.
EventLists == UNION {[1..n -> Events] : n \in 0..MaxEvents}

\* for e in events_set: the orders in which the set may be iterated.
Orders(set) ==
    {s \in [1..Cardinality(set) -> set] : \A i, j \in DOMAIN s : i # j => s[i] # s[j]}

\* Variant: the method is not looked for when the listener is bound.
MethodMissingNever(obj, e) == FALSE

\* Lines 26-34: getattr(obj, methodname, None) gives nothing.
MethodMissing(obj, e) == e \notin Methods(obj)

\* How many events of the iteration get their listener: all of them, or those
\* before the first for which the method is missing.
BoundBeforeRaise(obj, order) ==
    LET miss == {i \in 1..Len(order) : MethodMissing(obj, order[i])}
    IN  IF miss = {} THEN Len(order)
        ELSE (CHOOSE i \in miss : \A j \in miss : i <= j) - 1

\* EventQueue.bind_listener
BindListener ==
    /\ nbinds < MaxBinds
    /\ nbinds' = nbinds + 1
    /\ \E obj \in BindObjects, events_list \in EventLists :
          \E order \in Orders(Range(events_list)) :
              LET n == BoundBeforeRaise(obj, order)
                  raises == n < Len(order)
                  handles == [i \in 1..n |->
                                [event |-> order[i], handle |-> Len(eq_listeners) + i]]
              IN  /\ eq_listeners' = eq_listeners \o
                         [i \in 1..n |-> [event |-> order[i], obj |-> obj,
                                          removed |-> FALSE]]
                  /\ bindLast' =
                         [op |-> "bind_listener", obj |-> obj,
                          events_list |-> events_list, order |-> order,
                          outcome |-> IF raises THEN "raised" ELSE "ok",
                          error |-> IF raises THEN "MissingMethodError" ELSE None,
                          handles |-> IF raises THEN <<>> ELSE handles,
                          listeners0 |-> Len(eq_listeners)]
    /\ UNCHANGED <<regvars, listeners, instances, hashOrder, stack, ncalls, nnested,
                   got, dispatched, initLog, early_add, torn, last, pluginvars,
                   epvars, scopevars, loadervars>>

\* EventQueue.unbind_listener, with the handles the last bind_listener returned.
UnbindListener ==
    /\ bindLast.op = "bind_listener"
    /\ bindLast.outcome = "ok"
    /\ eq_listeners' =
          [h \in 1..Len(eq_listeners) |->
              IF \E i \in 1..Len(bindLast.handles) : bindLast.handles[i].handle = h
              THEN [eq_listeners[h] EXCEPT !.removed = TRUE]
              ELSE eq_listeners[h]]
    /\ bindLast' = [bindLast EXCEPT !.op = "unbind_listener"]
    /\ UNCHANGED <<regvars, listeners, instances, hashOrder, stack, ncalls, nnested,
                   got, dispatched, initLog, early_add, torn, last, pluginvars,
                   epvars, nbinds, scopevars, loadervars>>

(* ------------------ Injector.get and the singleton scopes --------------- *)

\* Variant: a scope takes whatever injector it is given.
ScopeRejectsNever(kind, inj) == FALSE

\* AppScope.__init__, JobScope.__init__, ProcessWorkerScope.__init__: the scope
\* raises ScopeGivenWrongInjectorException unless the injector has its flag.
ScopeRejects(kind, inj) ==
    CASE kind = "AppScope" -> APP_INJECTOR_FLAG \notin InjectorFlags(inj)
      [] kind = "JobScope" -> JOB_INJECTOR_FLAG \notin InjectorFlags(inj)
      [] kind = "ProcessWorkerScope" ->
           PROCESS_WORKER_INJECTOR_FLAG \notin InjectorFlags(inj)

\* The injector whose binder answers for cls: the injector's own binder if it
\* has a binding, else its parent's if that has one, else its own, which then
\* binds the class implicitly.
BindingOwner(inj, cls) ==
    IF cls \in bindings[inj] THEN inj
    ELSE IF Parent(inj) # None /\ cls \in bindings[Parent(inj)] THEN Parent(inj)
    ELSE inj

\* SingletonScope._get_instance, which JobScope overrides: an injector that
\* has a parent, and no explicit binding for the class, has the parent's scope
\* of the same class create the instance.
SingletonGetInstance(inj, cls) ==
    IF Parent(inj) # None /\ cls \notin ExplicitBindings(inj) THEN Parent(inj) ELSE inj

\* Variant: JobScope does not override _get_instance.
GetInstanceInherited(kind, inj, cls) == SingletonGetInstance(inj, cls)

\* The injector that creates a singleton of the scope `kind` of injector inj:
\* JobScope._get_instance is provider.get(injector).
GetInstance(kind, inj, cls) ==
    IF kind = "JobScope" THEN inj ELSE SingletonGetInstance(inj, cls)

\* The classes of a _context, in insertion order.
Keys(context) == [i \in 1..Len(context) |-> context[i].key]

\* What creating cls with the injector `by` adds to a _context: the singletons
\* its constructor is injected with, as far as they are new, and then cls.
NewEntries(context, cls, by) ==
    [i \in 1..Len(SelectSeq(ClassAttrs(cls).deps,
                            LAMBDA d : d \notin Range(Keys(context)))) |->
        [key |-> SelectSeq(ClassAttrs(cls).deps,
                           LAMBDA d : d \notin Range(Keys(context)))[i],
         by |-> by]]
    \o <<[key |-> cls, by |-> by]>>

\* The calls injector.get(cls) that are made: each injector is asked for the
\* classes of its own scope, and for some of another scope.
GetCalls ==
    {<<"app", c>> : c \in {"Extensions", "EventQueue", "AppInfo", "JobA"}}
    \cup {<<"job", c>> : c \in {"JobA", "JobB", "JobC", "JobD", "AppInfo", "Extensions"}}
    \cup {<<"worker", c>> : c \in {"WorkerA", "EventQueue"}}

\* injector.get(cls) for a class decorated with a scope: what it does to the
\* binders and to the scopes.
Get(inj, cls) ==
    LET kind == ClassAttrs(cls).scope
        owner == BindingOwner(inj, cls)
        s == <<kind, owner>>
        bound == [bindings EXCEPT ![owner] = @ \cup {cls}]
        op == [ScopeOp0 EXCEPT !.op = "get", !.injector = inj, !.cls = cls,
                               !.scope = s]
        wrong == [op EXCEPT !.outcome = "raised",
                            !.error = "ScopeGivenWrongInjectorException"]
        ctx == IF s \in DOMAIN scopes THEN scopes[s] ELSE <<>>
        by == GetInstance(kind, owner, cls)
        ps == <<kind, by>>
        pctx == IF ps \in DOMAIN scopes THEN scopes[ps] ELSE <<>>
    IN  IF s \notin DOMAIN scopes /\ ScopeRejects(kind, owner)
        THEN \* the scope cannot be constructed for the binder's injector
             /\ bindings' = bound
             /\ scopes' = scopes
             /\ scopeLast' = wrong
        ELSE IF cls \in Range(Keys(ctx))
        THEN \* SingletonScope.get: the instance is in _context
             /\ bindings' = bound
             /\ scopes' = scopes
             /\ scopeLast' = [op EXCEPT !.outcome = "ok"]
        ELSE IF by = owner
        THEN \* provider.get(injector), then _context[key] = InstanceProvider
             /\ bindings' = [bound EXCEPT ![by] = @ \cup Range(ClassAttrs(cls).deps)]
             /\ scopes' = DictPut(scopes, s, ctx \o NewEntries(ctx, cls, by))
             /\ scopeLast' = [op EXCEPT !.outcome = "ok",
                                        !.created = Keys(NewEntries(ctx, cls, by))]
        ELSE IF ps \notin DOMAIN scopes /\ ScopeRejects(kind, by)
        THEN \* the parent's scope cannot be constructed
             /\ bindings' = bound
             /\ scopes' = DictPut(scopes, s, ctx)
             /\ scopeLast' = wrong
        ELSE \* the parent's scope gives the instance, creating it if need be
             /\ bindings' = bound
             /\ scopes' = DictPut(DictPut(scopes, ps,
                              IF cls \in Range(Keys(pctx)) THEN pctx
                              ELSE Append(pctx, [key |-> cls, by |-> by])),
                              s, Append(ctx, [key |-> cls, by |-> by]))
             /\ scopeLast' = [op EXCEPT !.outcome = "ok",
                                        !.created = IF cls \in Range(Keys(pctx))
                                                    THEN <<>> ELSE <<cls>>]

\* injector.get(cls), called on one of the injectors.
GetSingleton ==
    /\ \E call \in GetCalls : Get(call[1], call[2])
    /\ UNCHANGED <<appvars, loadervars>>

\* Variant: the instances are visited in the order of their creation.
TeardownOrderForward(context) == context

\* reversed(self._context.values())
TeardownOrder(context) == Reverse(context)

\* TeardownSingletonScope.teardown: the classes whose instance.teardown() is
\* called, in order. The teardown of those in `failing` raises, and nothing
\* catches it: the loop ends there.
TeardownSingletons(context, failing) ==
    LET hooks == SelectSeq(Keys(TeardownOrder(context)),
                           LAMBDA k : ClassAttrs(k).teardown)
        stop == IF \E i \in 1..Len(hooks) : hooks[i] \in failing
                THEN CHOOSE i \in 1..Len(hooks) :
                       hooks[i] \in failing /\ \A j \in 1..(i - 1) : hooks[j] \notin failing
                ELSE Len(hooks)
    IN  SubSeq(hooks, 1, stop)

\* scope.teardown() of a scope that exists.
ScopeTeardown ==
    /\ \E s \in DOMAIN scopes :
       \E failing \in {{}} \cup {{k} : k \in {c \in Range(Keys(scopes[s])) :
                                                    ClassAttrs(c).teardown}} :
          LET invoked == TeardownSingletons(scopes[s], failing)
              raised == invoked # <<>> /\ invoked[Len(invoked)] \in failing
          IN  scopeLast' = [ScopeOp0 EXCEPT !.op = "teardown", !.scope = s,
                                            !.invoked = invoked, !.failing = failing,
                                            !.outcome = IF raised THEN "raised" ELSE "ok",
                                            !.error = IF raised THEN "Exception" ELSE None]
    /\ UNCHANGED <<bindings, scopes, appvars, loadervars>>

(* ------------------------------ plugin loader -------------------------- *)

\* Variant: the entry file is not looked for on disk.
ValidateSkipsFile(pack) ==
    LET md == PackAttrs(pack)
    IN IF ~md.is_plugin THEN "ValueError"
       ELSE IF ~md.path THEN "ValueError"
       ELSE IF ~md.plugin THEN "ValueError"
       ELSE IF md.module_name = None THEN "ValueError"
       ELSE None

\* LoadingProcess.__init__: the error the validation of the pack raises, None
\* when it passes. The checks run in the order of the code.
Validate(pack) ==
    LET md == PackAttrs(pack)
    IN IF ~md.is_plugin THEN "ValueError"
       ELSE IF ~md.path THEN "ValueError"
       ELSE IF ~md.plugin THEN "ValueError"
       ELSE IF md.module_name = None THEN "ValueError"
       ELSE IF ~md.exists THEN "FileNotFoundError"
       ELSE None

\* Variant: the module is never found in sys.modules.
installed_module_never(q) == FALSE

\* installed_module := sys.modules.get(self.qmod_name) is not None
\* The comparison binds tighter than the assignment expression: the name is
\* bound to the truth value, not to the module.
installed_module(q) == q \in DOMAIN sys_modules

\* getattr(installed_module, '__plugin__', None), of that truth value: a bool
\* has no attribute __plugin__.
installed_plugin_class(present) == None

\* plugin_class.pack_uuid, read on the class: the property object itself.
class_pack_uuid(plugin_class) == <<"property", "pack_uuid">>

\* Variant: a module that is present counts as loaded, whatever it holds.
is_already_loaded_if_present(pack) ==
    [value |-> qmod_name(PackAttrs(pack).module_name) \in DOMAIN sys_modules,
     error |-> None]

\* LoadingProcess.is_already_loaded: what it returns, or the error it raises.
is_already_loaded(pack) ==
    LET md == PackAttrs(pack)
        present == installed_module(qmod_name(md.module_name))
        plugin_class == installed_plugin_class(present)
    IN IF present
       THEN IF plugin_class = None \/ plugin_class \notin PluginClasses
            THEN [value |-> FALSE, error |-> "ValueError"]
            ELSE IF class_pack_uuid(plugin_class) = md.uuid
                 THEN [value |-> FALSE, error |-> "ValueError"]
                 ELSE [value |-> TRUE, error |-> None]
       ELSE [value |-> FALSE, error |-> None]

\* Variant: load goes from run_mod straight to the dispatch.
AfterStageSkipsCreate(stage) ==
    CASE stage = "validate" -> "run_mod"
      [] stage = "run_mod" -> "dispatch"
      [] stage = "create" -> "dispatch"
      [] stage = "dispatch" -> "idle"

\* The statements of load in their order (lines 117-130): what comes after each
\* when it did not raise and the load was not skipped.
AfterStage(stage) ==
    CASE stage = "validate" -> "run_mod"
      [] stage = "run_mod" -> "create"
      [] stage = "create" -> "dispatch"
      [] stage = "dispatch" -> "idle"

LoadEnds(pack, outcome, error, skipped, steps, loaded0) ==
    [op |-> "load", pack |-> pack, outcome |-> outcome, error |-> error,
     skipped |-> skipped, steps |-> steps, loaded0 |-> loaded0]

\* PluginLoader.load, up to the call of run_mod: LoadingProcess(pack), then
\* is_already_loaded.
Load ==
    \E pack \in Packs :
        /\ loading.stage = "idle"
        /\ nloads < MaxLoads
        /\ nloads' = nloads + 1
        /\ LET invalid == Validate(pack)
               already == is_already_loaded(pack)
           IN IF invalid # None
              THEN /\ loadLast' = LoadEnds(pack, "raised", invalid, FALSE, <<>>, loaded)
                   /\ UNCHANGED loading
              ELSE IF already.error # None
              THEN /\ loadLast' = LoadEnds(pack, "raised", already.error, FALSE, <<>>,
                                           loaded)
                   /\ UNCHANGED loading
              ELSE IF already.value
              THEN /\ loadLast' = LoadEnds(pack, "ok", None, TRUE, <<>>, loaded)
                   /\ UNCHANGED loading
              ELSE /\ loadLast' = LoadOp0
                   /\ loading' = [Idle EXCEPT !.stage = AfterStage("validate"),
                                              !.pack = pack,
                                              !.loaded0 = loaded]
        /\ UNCHANGED <<sys_modules, pack_plugin, class_pack, loaded, appvars, scopevars>>

\* LoadingProcess.run_mod: the module is bound in sys.modules, executed, its
\* __plugin__ is checked and the packages the class names are imported.
RunMod ==
    /\ loading.stage = "run_mod"
    /\ LET pack == loading.pack
           md == PackAttrs(pack)
           q == qmod_name(md.module_name)
           plugin_mod == [pack |-> pack, plugin |-> None]
           executed == [loaded EXCEPT !.execs = Append(@, q)]
       IN /\ loaded' = executed
          /\ IF md.exec_raises
             THEN /\ sys_modules' = (q :> plugin_mod) @@ sys_modules
                  /\ loadLast' = LoadEnds(pack, "raised", "Exception", FALSE,
                                          <<"bind", "exec">>, loading.loaded0)
                  /\ loading' = Idle
             ELSE /\ sys_modules' =
                         (q :> [plugin_mod EXCEPT !.plugin = md.plugin_class]) @@ sys_modules
                  /\ IF md.plugin_class \notin PluginClasses
                     THEN /\ loadLast' = LoadEnds(pack, "raised", "TypeError", FALSE,
                                                  <<"bind", "exec", "validate">>,
                                                  loading.loaded0)
                          /\ loading' = Idle
                     ELSE /\ loading' =
                                 [loading EXCEPT
                                      !.stage = AfterStage("run_mod"),
                                      !.plugin_class = md.plugin_class,
                                      !.steps = <<"bind", "exec", "validate", "submodules">>]
                          /\ UNCHANGED loadLast
    /\ UNCHANGED <<pack_plugin, class_pack, nloads, appvars, scopevars>>

\* plugin_class.__PACK__ = pack; pack.plugin = injector.create_object(plugin_class).
\* The constructor registers the pending extensions and may raise.
CreatePlugin ==
    /\ loading.stage = "create"
    /\ LET pack == loading.pack
           plugin_class == loading.plugin_class
           instance == [cls |-> plugin_class, pack |-> pack,
                        n |-> Len(loaded.instances) + 1]
           steps == loading.steps \o <<"attach", "instantiate">>
       IN /\ class_pack' = [class_pack EXCEPT ![plugin_class] = pack]
          /\ \E raises \in BOOLEAN :
                IF raises
                THEN /\ loadLast' = LoadEnds(pack, "raised", "Exception", FALSE, steps,
                                             loading.loaded0)
                     /\ loading' = Idle
                     /\ UNCHANGED <<pack_plugin, loaded>>
                ELSE /\ pack_plugin' = [pack_plugin EXCEPT ![pack] = instance]
                     /\ loaded' = [loaded EXCEPT !.instances = Append(@, instance)]
                     /\ loading' = [loading EXCEPT !.stage = AfterStage("create"),
                                                    !.steps = steps]
                     /\ UNCHANGED loadLast
    /\ UNCHANGED <<sys_modules, nloads, appvars, scopevars>>

\* self._eq.dispatch(Event.PLUGIN_LOADED_ONE, pack), and load returns.
DispatchLoaded ==
    /\ loading.stage = "dispatch"
    /\ loaded' = [loaded EXCEPT !.events = Append(@, loading.pack)]
    /\ loadLast' = LoadEnds(loading.pack, "ok", None, FALSE,
                            Append(loading.steps, "announce"), loading.loaded0)
    /\ loading' = Idle
    /\ UNCHANGED <<sys_modules, pack_plugin, class_pack, nloads, appvars, scopevars>>

(* ----------------------------- specification --------------------------- *)

Next ==
    \/ AddEndpoint
    \/ AddExtension
    \/ AddExtensionStep
    \/ InitBuiltinExtensions
    \/ InitStep
    \/ Subscribe
    \/ SubscribeStep
    \/ DispatchStep
    \/ CallbackReturn
    \/ Teardown

Spec == Init /\ [][Next]_vars

\* The injectors and their scopes.
ScopeNext ==
    \/ GetSingleton
    \/ ScopeTeardown

\* The order in which a set of endpoints is iterated plays no part here.
ScopeInit == Init /\ hashOrder = <<"E1", "E2">>

ScopeSpec == ScopeInit /\ [][ScopeNext]_vars

\* The plugin loader alone.
LoaderNext ==
    \/ Load
    \/ RunMod
    \/ CreatePlugin
    \/ DispatchLoaded

\* The registry, called with WrappedClass objects as well.
WrapNext ==
    \/ Next
    \/ AddWrapped

WrapSpec == Init /\ [][WrapNext]_vars

\* An Endpoint on its own.
EndpointNext ==
    \/ MakeEndpoint
    \/ CheckObject

EndpointInit == Init /\ hashOrder = <<"E1", "E2">>

EndpointSpec == EndpointInit /\ [][EndpointNext]_vars

\* The event queue's bind_listener and unbind_listener.
BindNext ==
    \/ BindListener
    \/ UnbindListener

BindInit == Init /\ hashOrder = <<"E1", "E2">>

BindSpec == BindInit /\ [][BindNext]_vars

\* The construction of plugins and the registry calls it makes.
PluginNext ==
    \/ AddEndpoint
    \/ Include
    \/ ConstructPlugin
    \/ PluginInitStep
    \/ AddExtensionStep
    \/ DispatchStep

PluginInit == Init /\ hashOrder = <<"E1", "E2">>

PluginSpec == PluginInit /\ [][PluginNext]_vars

LoaderInit == Init /\ hashOrder = <<"E1", "E2">>

LoaderSpec == LoaderInit /\ [][LoaderNext]_vars

(* ------------- the registry as a singleton of the application ---------- *)

\* The application's scope, and what it holds.
AppScopeKey == <<"AppScope", "app">>
AppContext == IF AppScopeKey \in DOMAIN scopes THEN scopes[AppScopeKey] ELSE <<>>

\* The application has obtained its registry: injector.get(Extensions).
ExtensionsConstructed == "Extensions" \in Range(Keys(AppContext))

\* The classes the application injector is asked for.
AppGets == {"Extensions", "EventQueue", "AppInfo", "Service"}

\* injector.get(cls) on the application injector, between registry calls.
GetAppSingleton ==
    /\ stack = <<>>
    /\ \E cls \in AppGets : Get("app", cls)
    /\ UNCHANGED <<appvars, loadervars>>

\* add_endpoint on the registry the application holds.
AppAddEndpoint ==
    /\ ExtensionsConstructed
    /\ AddEndpoint

\* add_extension(plugin, Service) for a class decorated with @app_scope:
\* line 223 has the injector resolve it to the singleton of the scope.
AddService ==
    /\ ExtensionsConstructed
    /\ CanCall
    /\ Count
    /\ \E cls \in ScopedClasses, plugin \in Plugins :
          /\ Get("app", cls)
          /\ EntryAddExtension(stack, plugin, cls, <<>>, FALSE, 0, initLog)
    /\ early_add' = (early_add \/ ~builtin_has_init \/ InitFrames(stack) # {})
    /\ UNCHANGED <<endpoints, builtin_extensions, builtin_has_init,
                   subscription_handles, listeners, hashOrder, loadervars, auxvars,
                   pluginvars, got, dispatched, torn>>

\* The teardown methods one instance.teardown() of the scope's loop runs: the
\* instance's own, and for the registry those of the objects it tracks.
HooksOf(cls, failing) ==
    IF cls = "Extensions"
    THEN <<AppSingleton(cls)>> \o TeardownCalls(teardown_objs, failing)
    ELSE <<AppSingleton(cls)>>

\* TeardownSingletonScope.teardown of the application's scope: the instances
\* with a teardown method, latest first; the registry's teardown removes its
\* listeners and tears down the objects it tracks.
AppTeardown ==
    /\ stack = <<>>
    /\ AppScopeKey \in DOMAIN scopes
    /\ CanCall
    /\ Count
    /\ \E failing \in SUBSET Range(teardown_objs) :
          LET invoked == TeardownSingletons(AppContext, {})
              registry == "Extensions" \in Range(invoked)
              hooks == Concat([i \in 1..Len(invoked) |-> HooksOf(invoked[i], failing)])
          IN  /\ listeners' = IF registry THEN RemoveListeners(subscription_handles)
                              ELSE listeners
              /\ torn' = IF registry THEN torn \o TeardownCalls(teardown_objs, failing)
                         ELSE torn
              /\ scopeLast' = [ScopeOp0 EXCEPT !.op = "teardown", !.scope = AppScopeKey,
                                                !.invoked = invoked, !.outcome = "ok"]
              /\ last' = [Frame0 EXCEPT !.op = "scope_teardown", !.outcome = "ok",
                                        !.depth = Len(stack), !.failed = failing,
                                        !.torn_down = hooks]
    /\ UNCHANGED <<regvars, instances, hashOrder, bindings, scopes, loadervars, auxvars,
                   pluginvars, stack, got, dispatched, initLog, early_add>>

\* The application: its injector, its registry, and the teardown of its scope.
AppNext ==
    \/ GetAppSingleton
    \/ AppAddEndpoint
    \/ AddService
    \/ AddExtensionStep
    \/ DispatchStep
    \/ AppTeardown

AppInit == Init /\ hashOrder = <<"E1", "E2">>

AppSpec == AppInit /\ [][AppNext]_vars


(* ------------------------------ properties ----------------------------- *)

\* How many times x occurs in the sequence s.
Occurrences(s, x) == Cardinality({i \in 1..Len(s) : s[i] = x})

\* The position of x in the sequence s, 0 when it does not occur.
Position(s, x) == IF \E i \in 1..Len(s) : s[i] = x
                  THEN CHOOSE i \in 1..Len(s) : s[i] = x ELSE 0

\* C1: a subscribe(E, cb) with call_with_existing true that has returned gave
\* cb each extension that E held when the call began exactly once, in
\* registration order, all of them during the call.
C1_SubscribeDeliversExisting ==
    (last.op = "subscribe" /\ last.outcome = "ok" /\ last.call_with_existing) =>
        /\ Len(last.delivered) >= Len(last.pre)
        /\ SubSeq(last.delivered, 1, Len(last.pre)) = last.pre
        /\ \A x \in Range(last.pre) : Occurrences(last.delivered, x) = 1

C1_Witness ==
    /\ last.op = "subscribe"
    /\ last.outcome = "ok"
    /\ last.call_with_existing
    /\ Len(last.pre) >= 2
    /\ last.delivered = last.pre

\* The extension an add_extension call that has finished stored on endpoint u.
StoredExtension(f, u) ==
    [endpoint |-> u, obj |-> f.obj, plugin |-> f.plugin, from_plugin |-> ~f.delayed_builtin]

\* C2: when an add_extension returns, every listener that subscribe had
\* installed on an endpoint E before the call began (and that teardown has not
\* removed) was given each extension the call stored on E exactly once; and no
\* listener is ever given an extension of another endpoint than its own.
C2_LiveDelivery ==
    /\ (last.op = "add_extension" /\ last.outcome = "ok") =>
          \A u \in last.stored : \A h \in 1..last.lsn0 :
              (listeners[h].endpoint = u /\ ~listeners[h].removed) =>
                  Occurrences(got[h], StoredExtension(last, u)) = 1
    /\ \A h \in 1..Len(listeners) : \A i \in 1..Len(got[h]) :
          got[h][i].endpoint = listeners[h].endpoint

C2_Witness ==
    /\ last.op = "add_extension"
    /\ last.outcome = "ok"
    /\ last.stored # {}
    /\ \E h1, h2 \in 1..last.lsn0 :
          /\ listeners[h1].endpoint \in last.stored
          /\ ~listeners[h1].removed
          /\ Occurrences(got[h1], StoredExtension(last, listeners[h1].endpoint)) = 1
          /\ listeners[h2].endpoint \notin last.stored
          /\ ~listeners[h2].removed


\* The extension sequence of the endpoint a listener is subscribed to.
ExtensionsOf(u) == IF u \in DOMAIN endpoints THEN endpoints[u].extensions ELSE <<>>

\* C3: every subscriber of an endpoint E is given E's extensions in the order
\* in which they stand in E's extension sequence, also when add_extension is
\* called from inside a listener during a dispatch.
C3_SubscriberSeesStorageOrder ==
    \A h \in 1..Len(listeners) : \A i, j \in 1..Len(got[h]) :
        i < j => Position(ExtensionsOf(listeners[h].endpoint), got[h][i])
                   < Position(ExtensionsOf(listeners[h].endpoint), got[h][j])

\* The step is add_extension reaching an endpoint that accepts the object and
\* already holds an extension with the same identity.
DuplicateAttempt ==
    /\ stack # <<>>
    /\ Top.op = "add_extension"
    /\ Top.todo # <<>>
    /\ Head(Top.todo) \in DOMAIN endpoints
    /\ IncludeCondition(endpoints[Head(Top.todo)].info, Top.obj) = "True"
    /\ \E i \in 1..Len(endpoints[Head(Top.todo)].extensions) :
          ObjId(endpoints[Head(Top.todo)].extensions[i].obj) = ObjId(Top.obj)

\* The endpoints that accept obj among those of the hint and of obj's __endpoint__.
AcceptingCandidates(obj, hint) ==
    {u \in (Range(hint) \cup Range(ObjAttrs(obj).endpoint)) \cap DOMAIN endpoints :
        IncludeCondition(endpoints[u].info, obj) = "True"}

\* C4: registering an identity that an endpoint already holds raises and leaves
\* every endpoint's storage (extension sequence, object list, name map, seen
\* identities) as it was; an add_extension that returns has stored the object on
\* every endpoint of its candidates that accepts it, two of them included.
C4_DuplicateRejected ==
    /\ [][DuplicateAttempt =>
             /\ last'.outcome = "raised"
             /\ last'.error = "RuntimeError"
             /\ endpoints' = endpoints]_vars
    /\ [](last.op = "add_extension" /\ last.outcome = "ok" =>
             \A u \in AcceptingCandidates(last.obj, last.hint) :
                 /\ last.obj \in Range(endpoints[u].extension_objects_list)
                 /\ StoredExtension(last, u) \in Range(endpoints[u].extensions))

\* A second registration of "multi" was rejected while it is stored on E1 and E2.
C4_Witness ==
    /\ last.op = "add_extension"
    /\ last.outcome = "raised"
    /\ last.error = "RuntimeError"
    /\ \A u \in Uuids : u \in DOMAIN endpoints
                        /\ last.obj \in Range(endpoints[u].extension_objects_list)

\* C5: an init_builtin_extensions call made after an earlier one completed, or
\* while an earlier one is still in progress, raises and registers nothing.
C5_InitOnlyOnce ==
    \A i \in DOMAIN initLog :
        initLog[i].second => initLog[i].stored = 0 /\ initLog[i].outcome # "ok"


\* An object the injector may give for raw: raw itself unless raw is a class.
Resolves(raw, obj) ==
    IF ObjAttrs(raw).is_type THEN obj \in Range(FreshNames) ELSE obj = raw

\* The endpoint of a deferred builtin accepts it (an instance of it, for a class).
BuiltinAccepted(b) ==
    /\ b.endpoint_uuid \in DOMAIN endpoints
    /\ IncludeCondition(endpoints[b.endpoint_uuid].info,
                        IF ObjAttrs(b.obj).is_type THEN FreshNames[1] ELSE b.obj) = "True"

\* C6: once init_builtin_extensions(p) has returned, every deferred builtin that
\* its endpoint accepts is stored there as an extension owned by p with
\* from_plugin false; and no step changes an extension that is already stored
\* (its owner and flag stay, whoever calls add_extension later).
C6_BuiltinsOwnedByInitPlugin ==
    /\ [](\A i \in DOMAIN initLog : initLog[i].outcome = "ok" =>
            \A k \in DOMAIN builtin_extensions :
                BuiltinAccepted(builtin_extensions[k]) =>
                    \E x \in Range(endpoints[builtin_extensions[k].endpoint_uuid].extensions) :
                        /\ Resolves(builtin_extensions[k].obj, x.obj)
                        /\ x.plugin = initLog[i].plugin
                        /\ ~x.from_plugin)
    /\ [][\A u \in DOMAIN endpoints : \A n \in 1..Len(endpoints[u].extensions) :
             /\ u \in DOMAIN endpoints'
             /\ Len(endpoints'[u].extensions) >= n
             /\ endpoints'[u].extensions[n] = endpoints[u].extensions[n]]_vars

\* After init by p2, the plugin pb has added an extension next to a builtin.
C6_Witness ==
    /\ \E i \in DOMAIN initLog : initLog[i].outcome = "ok" /\ initLog[i].stored >= 1
    /\ \E u \in DOMAIN endpoints : \E m, n \in 1..Len(endpoints[u].extensions) :
          /\ m < n
          /\ ~endpoints[u].extensions[m].from_plugin
          /\ endpoints[u].extensions[m].plugin = "p2"
          /\ endpoints[u].extensions[n].from_plugin
          /\ endpoints[u].extensions[n].plugin = "pb"

\* C7: if no plugin calls add_extension before init_builtin_extensions is over,
\* then in every endpoint's extension sequence the builtin extensions
\* (from_plugin false) all precede the plugins' extensions (from_plugin true).
C7_BuiltinsPrecedePlugins ==
    ~early_add =>
        \A u \in DOMAIN endpoints : \A i, j \in 1..Len(endpoints[u].extensions) :
            i < j => ~(endpoints[u].extensions[i].from_plugin
                       /\ ~endpoints[u].extensions[j].from_plugin)

\* The example: E1 holds [B, obj2], B a builtin and obj2 from a plugin.
C7_Witness ==
    /\ ~early_add
    /\ stack = <<>>
    /\ "E1" \in DOMAIN endpoints
    /\ endpoints["E1"].extension_objects_list = <<"B", "obj2">>
    /\ ~endpoints["E1"].extensions[1].from_plugin
    /\ endpoints["E1"].extensions[2].from_plugin

\* C8: add_endpoint only records the endpoint's builtins in the deferred list:
\* it stores no extension and dispatches nothing; and as long as no
\* init_builtin_extensions call has got past its checks, no extension that is
\* stored or dispatched is a builtin one, and the builtins of every registered
\* endpoint are in the deferred list.
C8_BuiltinsDeferred ==
    /\ []((\A i \in DOMAIN initLog : ~initLog[i].entered) =>
            /\ \A u \in DOMAIN endpoints : \A n \in 1..Len(endpoints[u].extensions) :
                  endpoints[u].extensions[n].from_plugin
            /\ \A n \in 1..Len(dispatched) : dispatched[n].from_plugin
            /\ \A u \in DOMAIN endpoints : \A m \in 1..Len(endpoints[u].info.builtins) :
                  [obj |-> endpoints[u].info.builtins[m], endpoint_uuid |-> u]
                      \in Range(builtin_extensions))
    /\ [][last'.op = "add_endpoint" =>
             /\ dispatched' = dispatched
             /\ \A u \in DOMAIN endpoints : endpoints'[u] = endpoints[u]
             /\ \A u \in DOMAIN endpoints' \ DOMAIN endpoints :
                   endpoints'[u].extensions = <<>>]_vars

\* Before any init: E1 is defined with its builtin B deferred, and holds only a
\* plugin's extension.
C8_Witness ==
    /\ \A i \in DOMAIN initLog : ~initLog[i].entered
    /\ "E1" \in DOMAIN endpoints
    /\ [obj |-> "B", endpoint_uuid |-> "E1"] \in Range(builtin_extensions)
    /\ endpoints["E1"].extension_objects_list = <<"obj2">>
    /\ Len(dispatched) = 1

\* C9: the dispatches of EXTENSION_REGISTERED and the stored extensions are the
\* same, one dispatch for each, and while a dispatch or a listener runs its
\* extension is in the storage of its endpoint.
C9_OneDispatchPerStoredExtension ==
    /\ \A i, j \in 1..Len(dispatched) : i # j => dispatched[i] # dispatched[j]
    /\ \A i \in 1..Len(dispatched) :
          dispatched[i] \in Range(ExtensionsOf(dispatched[i].endpoint))
    /\ \A u \in DOMAIN endpoints : \A n \in 1..Len(endpoints[u].extensions) :
          /\ endpoints[u].extensions[n] \in Range(dispatched)
          /\ endpoints[u].extensions[n].endpoint = u
    /\ \A k \in 1..Len(stack) :
          stack[k].op \in {"dispatch", "callback"} =>
              stack[k].ext \in Range(ExtensionsOf(stack[k].endpoint))

\* A listener is running for the second extension that was dispatched.
C9_Witness ==
    /\ Len(stack) >= 3
    /\ Top.op = "callback"
    /\ stack[Len(stack) - 1].op = "dispatch"
    /\ Len(dispatched) = 2
    /\ Top.ext = dispatched[2]

\* C10: an add_extension that has returned stored the object on exactly the
\* endpoints of its candidate set (the hint united with the object's
\* __endpoint__) that accept it; and every step that changes the storage of an
\* endpoint is an add_extension storing on an accepting endpoint of its candidates.
C10_StoredOnAcceptingCandidates ==
    /\ [](last.op = "add_extension" /\ last.outcome = "ok" =>
            /\ last.stored = AcceptingCandidates(last.obj, last.hint)
            /\ \A u \in last.stored :
                  last.obj \in Range(endpoints[u].extension_objects_list))
    /\ [][\A u \in DOMAIN endpoints : endpoints'[u] # endpoints[u] =>
             /\ stack # <<>>
             /\ Top.op = "add_extension"
             /\ u \in AcceptingCandidates(Top.obj, Top.hint)
             /\ endpoints'[u].extension_objects_list
                  = Append(endpoints[u].extension_objects_list, Top.obj)]_vars

\* obj2 (__endpoint__ E1) was added with the hint E2 and is stored on both.
C10_Witness ==
    /\ last.op = "add_extension"
    /\ last.outcome = "ok"
    /\ last.raw = "obj2"
    /\ last.hint = <<"E2">>
    /\ last.stored = {"E1", "E2"}

\* The candidate endpoint set of an add_extension call: its hint united with the
\* object's __endpoint__.
Candidates(obj, hint) == Range(hint) \cup Range(ObjAttrs(obj).endpoint)

\* C11: an add_extension whose candidate set holds a UUID that is not registered
\* raises (it never returns normally), and the call that raises for the unknown
\* endpoint has stored no extension and dispatched nothing, whatever else its
\* candidate set holds.
C11_UnknownEndpointStoresNothing ==
    /\ (last.op = "add_extension" /\ last.outcome = "ok") =>
          Candidates(last.obj, last.hint) \subseteq DOMAIN endpoints
    /\ (last.op = "add_extension" /\ last.error = "ValueError") =>
          /\ last.outcome = "raised"
          /\ last.stored = {}

\* C12: an add_extension whose candidate endpoints are all registered and none
\* of which accepts the object (the empty candidate set included) returns
\* normally and has stored nothing.
C12_UnmatchedReturnsNormally ==
    (/\ last.op = "add_extension"
     /\ Candidates(last.obj, last.hint) \subseteq DOMAIN endpoints
     /\ AcceptingCandidates(last.obj, last.hint) = {}) =>
        /\ last.outcome = "ok"
        /\ last.stored = {}

\* C15: Extensions.teardown has removed every listener that subscribe installed,
\* and called the teardown of every tracked object, in the reverse of the order
\* in which they were first registered, whichever of these teardowns raise; a
\* listener that was removed stays removed and its callable is not run again.
C15_TeardownRemovesListenersThenTearsDown ==
    /\ [](last.op = "teardown" =>
            /\ \A h \in Range(subscription_handles) : listeners[h].removed
            /\ last.torn_down = Reverse(teardown_objs))
    /\ [][\A h \in 1..Len(listeners) : listeners[h].removed =>
             /\ listeners'[h].removed
             /\ got'[h] = got[h]]_vars

\* A teardown of two tracked objects or more where the first teardown called
\* raises, with a listener removed whose callable had been run.
C15_Witness ==
    /\ last.op = "teardown"
    /\ Len(last.torn_down) >= 2
    /\ last.torn_down[1] \in last.failed
    /\ \E h \in 1..Len(listeners) : listeners[h].removed /\ got[h] # <<>>

\* C16: an object with a teardown method is tracked once however often it is
\* passed to add_extension; a call for an object that is tracked already (the
\* warning of line 227) that returns has stored it on every accepting endpoint
\* of its candidates; and one Extensions.teardown calls its teardown once.
C16_TrackedOnce ==
    /\ \A i, j \in 1..Len(teardown_objs) : i # j => teardown_objs[i] # teardown_objs[j]
    /\ (last.op = "add_extension" /\ last.warned /\ last.outcome = "ok") =>
          /\ last.stored = AcceptingCandidates(last.obj, last.hint)
          /\ \A u \in last.stored : last.obj \in Range(endpoints[u].extension_objects_list)
    /\ last.op = "teardown" =>
          \A o \in Range(teardown_objs) : Occurrences(last.torn_down, o) = 1

\* B was registered on E1 and then on E2, and teardown has called B.teardown once.
C16_Witness ==
    /\ last.op = "teardown"
    /\ \A u \in Uuids : u \in DOMAIN endpoints
                        /\ "B" \in Range(endpoints[u].extension_objects_list)
    /\ Occurrences(last.torn_down, "B") = 1

\* C19: an add_endpoint whose UUID is registered already raises ValueError and
\* leaves every endpoint's storage and the deferred builtin list as they were.
C19_DuplicateEndpointRejected ==
    [][(last'.op = "add_endpoint" /\ last'.endpoint \in DOMAIN endpoints) =>
          /\ last'.outcome = "raised"
          /\ last'.error = "ValueError"
          /\ endpoints' = endpoints
          /\ builtin_extensions' = builtin_extensions]_vars

\* The rejected add_endpoint was for an endpoint that holds an extension, with
\* builtins deferred.
C19_Witness ==
    /\ last.op = "add_endpoint"
    /\ last.outcome = "raised"
    /\ last.error = "ValueError"
    /\ Len(endpoints[last.endpoint].extensions) >= 1
    /\ builtin_extensions # <<>>

\* The classes of a scope's singletons that have a teardown method, the one
\* created last first.
HooksNewestFirst(context) ==
    LET keys == [i \in 1..Len(context) |-> context[Len(context) + 1 - i].key]
    IN  SelectSeq(keys, LAMBDA k : k \in {"Extensions", "JobA", "JobB", "JobC", "WorkerA"})

IsPrefix(a, b) == Len(a) <= Len(b) /\ SubSeq(b, 1, Len(a)) = a

\* C13: a scope teardown calls the teardown methods of the scope's singletons
\* in the reverse of the order of their creation, passing over the singletons
\* that have none: what it has called is an initial part of that sequence, and
\* all of it when the teardown returns.
C13_ScopeTeardownReverseOrder ==
    scopeLast.op = "teardown" =>
        /\ IsPrefix(scopeLast.invoked, HooksNewestFirst(scopes[scopeLast.scope]))
        /\ scopeLast.outcome = "ok" =>
              scopeLast.invoked = HooksNewestFirst(scopes[scopeLast.scope])

\* The job scope holds JobA, JobD (no teardown method), JobC, JobB in this
\* order of creation, and its teardown has called JobB, JobC, JobA.
C13_Witness ==
    /\ scopeLast.op = "teardown"
    /\ scopeLast.outcome = "ok"
    /\ scopeLast.scope = <<"JobScope", "job">>
    /\ Keys(scopes[scopeLast.scope]) = <<"JobA", "JobD", "JobC", "JobB">>
    /\ scopeLast.invoked = <<"JobB", "JobC", "JobA">>

\* C14: a scope teardown returns normally and has called the teardown method of
\* every singleton of the scope that has one, also when one of them raises.
C14_FailingHookDoesNotBlockOthers ==
    scopeLast.op = "teardown" =>
        /\ scopeLast.outcome = "ok"
        /\ scopeLast.invoked = HooksNewestFirst(scopes[scopeLast.scope])

\* The scope class whose flag the injector carries.
HasMarker(kind, inj) ==
    \/ kind = "AppScope" /\ inj = "app"
    \/ kind = "JobScope" /\ inj = "job"
    \/ kind = "ProcessWorkerScope" /\ inj = "worker"

\* C17: every scope that exists was constructed with an injector that carries
\* the flag of its class; an injector.get that needs a scope for an injector
\* without the flag raises ScopeGivenWrongInjectorException and no such scope
\* exists afterwards, and one that needs a scope for an injector with the flag
\* has it.
C17_ScopeNeedsItsInjector ==
    /\ \A s \in DOMAIN scopes : HasMarker(s[1], s[2])
    /\ scopeLast.op = "get" =>
          IF HasMarker(scopeLast.scope[1], scopeLast.scope[2])
          THEN scopeLast.scope \in DOMAIN scopes
          ELSE /\ scopeLast.outcome = "raised"
               /\ scopeLast.error = "ScopeGivenWrongInjectorException"
               /\ scopeLast.scope \notin DOMAIN scopes

\* The job injector was asked for Extensions, which no binder had bound: the
\* AppScope it needs was refused, while the application's AppScope and the
\* job's JobScope exist.
C17_Witness ==
    /\ scopeLast.op = "get"
    /\ scopeLast.scope = <<"AppScope", "job">>
    /\ scopeLast.outcome = "raised"
    /\ <<"AppScope", "app">> \in DOMAIN scopes
    /\ <<"JobScope", "job">> \in DOMAIN scopes
    /\ "JobA" \in bindings["app"]

C20_SecondLoadIsSilentNoOp ==
    loadLast.op = "load" =>
        /\ (loadLast.outcome = "ok" /\ ~loadLast.skipped) =>
               loaded.events = Append(loadLast.loaded0.events, loadLast.pack)
        /\ loadLast.pack \in Range(loadLast.loaded0.events) =>
               /\ loadLast.outcome = "ok"
               /\ loaded = loadLast.loaded0

(* ------------------------- the loader's properties --------------------- *)

\* The last load found the module of its pack in sys.modules: it passed the
\* validation of the pack and ended before run_mod.
ModuleWasPresent ==
    /\ loadLast.op = "load"
    /\ loadLast.steps = <<>>
    /\ PackAttrs(loadLast.pack).module_name # None
    /\ qmod_name(PackAttrs(loadLast.pack).module_name) \in DOMAIN sys_modules
    /\ PackAttrs(loadLast.pack).is_plugin /\ PackAttrs(loadLast.pack).path
    /\ PackAttrs(loadLast.pack).plugin /\ PackAttrs(loadLast.pack).exists

\* The module bound to the name of the pack exposes a plugin class.
PresentModuleValid(pack) ==
    sys_modules[qmod_name(PackAttrs(pack).module_name)].plugin \in PluginClasses

\* The pack UUID of the plugin class of that module is the UUID of the pack.
PresentModuleSameUuid(pack) ==
    LET cls == sys_modules[qmod_name(PackAttrs(pack).module_name)].plugin
    IN  /\ class_pack[cls] # None
        /\ PackAttrs(class_pack[cls]).uuid = PackAttrs(pack).uuid

\* C21: when the module of the pack is already in sys.modules, the load raises
\* if and only if the module has no valid plugin class or the pack UUID of its
\* plugin class differs from the UUID of the pack; with equal UUIDs the load is
\* skipped without an error.
C21_PresentModuleRaisesIffInvalidOrMismatch ==
    ModuleWasPresent =>
        LET pack == loadLast.pack
            valid == PresentModuleValid(pack)
            same == valid /\ PresentModuleSameUuid(pack)
        IN  /\ (loadLast.outcome = "raised") <=> (~valid \/ ~same)
            /\ same => (loadLast.outcome = "ok" /\ loadLast.skipped)

\* What the VALIDATE stage requires of a pack is not all there.
InvalidPack(pack) ==
    \/ ~PackAttrs(pack).is_plugin
    \/ ~PackAttrs(pack).path
    \/ ~PackAttrs(pack).plugin
    \/ PackAttrs(pack).module_name = None
    \/ ~PackAttrs(pack).exists

\* C22: a load of a pack that fails the VALIDATE stage (not a plugin pack, no
\* base path, no plugin configuration, no module name, no entry file) raises in
\* the step in which it is called, and leaves sys.modules, pack.plugin, the
\* plugin classes and the record of executions, instances and dispatches as
\* they were.
C22_ValidateFailureHasNoEffect ==
    [][ \A pack \in Packs :
          (nloads' = nloads + 1 /\ InvalidPack(pack) /\
           (loadLast'.pack = pack \/ loading'.pack = pack))
          => /\ loadLast'.op = "load"
             /\ loadLast'.pack = pack
             /\ loadLast'.outcome = "raised"
             /\ loadLast'.error \in {"ValueError", "FileNotFoundError"}
             /\ loading' = Idle
             /\ UNCHANGED <<sys_modules, pack_plugin, class_pack, loaded>> ]_vars

\* The load of a pack without entry file has raised, after a plugin was loaded.
C22_Witness ==
    /\ loadLast.op = "load"
    /\ loadLast.pack = "nofile"
    /\ loadLast.outcome = "raised"
    /\ loadLast.error = "FileNotFoundError"
    /\ loaded.events # <<>>
    /\ sys_modules # <<>>

LoadSteps ==
    <<"bind", "exec", "validate", "submodules", "attach", "instantiate", "announce">>

\* C23: in a successful load the module is bound and executed, its plugin class
\* validated and the sub-modules imported before the pack is attached to the
\* class and the instance constructed, and PLUGIN_LOADED_ONE is dispatched last
\* and once; a load that raises dispatches no PLUGIN_LOADED_ONE.
C23_LoadStepsInOrder ==
    LET pack == IF loading.stage = "idle" THEN loadLast.pack ELSE loading.pack
        q == qmod_name(PackAttrs(pack).module_name)
        cls == PackAttrs(pack).plugin_class
        before == IF loading.stage = "idle" THEN loadLast.loaded0 ELSE loading.loaded0
        bound == /\ q \in DOMAIN sys_modules
                 /\ sys_modules[q].plugin = cls
                 /\ cls \in PluginClasses
                 /\ loaded.execs = Append(before.execs, q)
        built == /\ class_pack[cls] = pack
                 /\ pack_plugin[pack] # NoPlugin
                 /\ loaded.instances = Append(before.instances, pack_plugin[pack])
    IN  /\ loading.stage = "run_mod" => loaded = before
        /\ loading.stage = "create" =>
              /\ bound
              /\ loaded.instances = before.instances
              /\ loaded.events = before.events
              /\ loading.steps = SubSeq(LoadSteps, 1, 4)
        /\ loading.stage = "dispatch" =>
              /\ bound
              /\ built
              /\ loaded.events = before.events
              /\ loading.steps = SubSeq(LoadSteps, 1, 6)
        /\ (loadLast.op = "load" /\ loadLast.outcome = "ok" /\ ~loadLast.skipped) =>
              /\ bound
              /\ built
              /\ loaded.events = Append(before.events, pack)
              /\ loadLast.steps = LoadSteps
        /\ (loadLast.op = "load" /\ loadLast.outcome = "raised") =>
              loaded.events = before.events

\* A load has run through all its steps, after a load that raised in run_mod
\* and one that raised in the constructor of the plugin.
C23_Witness ==
    /\ loadLast.op = "load"
    /\ loadLast.outcome = "ok"
    /\ loadLast.steps = LoadSteps
    /\ Len(loaded.execs) = 3
    /\ Len(loaded.instances) = 1
    /\ loaded.events = <<loadLast.pack>>

\* The plugin instances constructed for a pack so far.
InstancesOf(pack) ==
    {i \in 1..Len(loaded.instances) : loaded.instances[i].pack = pack}

\* C24: whatever loads are called, succeeding, failing or repeated, at most one
\* plugin instance is constructed for a pack.
C24_AtMostOneInstancePerPack ==
    \A pack \in Packs : Cardinality(InstancesOf(pack)) <= 1

\* A pack that has its instance was loaded again, and that load has ended.
C24_Witness ==
    /\ loadLast.op = "load"
    /\ \E i \in 1..Len(loadLast.loaded0.instances) :
          loadLast.loaded0.instances[i].pack = loadLast.pack
    /\ Cardinality(InstancesOf(loadLast.pack)) = 1

\* C30: whenever load(pack) returns normally, pack.plugin is a plugin instance
\* constructed for that pack, also after loads that failed with the module
\* already bound in sys.modules.
C30_ReturnedLoadHasPlugin ==
    (loadLast.op = "load" /\ loadLast.outcome = "ok") =>
        /\ pack_plugin[loadLast.pack] # NoPlugin
        /\ pack_plugin[loadLast.pack].pack = loadLast.pack
        /\ pack_plugin[loadLast.pack] \in Range(loaded.instances)

\* A load has returned normally after a load that raised while executing its
\* module, which is still bound, and after another that raised without
\* executing anything.
C30_Witness ==
    /\ loadLast.op = "load"
    /\ loadLast.outcome = "ok"
    /\ pack_plugin[loadLast.pack] # NoPlugin
    /\ qmod_name("broken") \in DOMAIN sys_modules
    /\ nloads = 3
    /\ Len(loaded.execs) = 2

(* ------------------- the properties of plugin construction ------------- *)

\* The extensions stored in the registry, over all endpoints.
StoredExtensions ==
    UNION {Range(endpoints[u].extensions) : u \in DOMAIN endpoints}

\* C25: the constructor of a plugin calls add_extension once for each pending
\* extension declared on the class of the instance, in the order of their
\* declaration and for no other; the owner is the new instance and the call is
\* no delayed builtin, so what is stored for it has from_plugin true.
C25_ConstructorRegistersOwnPending ==
    /\ \A i \in DOMAIN constructed :
          /\ IsPrefix(constructed[i].calls, constructed[i].declared)
          /\ constructed[i].done => constructed[i].calls = constructed[i].declared
          /\ \A e \in StoredExtensions :
                e.plugin = constructed[i].plugin =>
                    /\ e.from_plugin
                    /\ \E j \in DOMAIN constructed[i].calls :
                          constructed[i].calls[j].obj = e.obj
    /\ \A k \in 2..Len(stack) :
          (stack[k].op = "add_extension" /\ stack[k - 1].op = "plugin_init") =>
              /\ stack[k].plugin = stack[k - 1].plugin
              /\ stack[k].plugin = constructed[stack[k - 1].call].plugin
              /\ ~stack[k].delayed_builtin
              /\ stack[k].raw = constructed[stack[k - 1].call].declared[stack[k - 1].idx - 1].obj

\* An instance of BetaPlugin is constructed: it made the two calls for the two
\* extensions declared on BetaPlugin and none for the one declared on its base
\* AlphaPlugin, and one of the two objects is stored for it.
C25_Witness ==
    \E i \in DOMAIN constructed :
        /\ constructed[i].done
        /\ constructed[i].cls = "BetaPlugin"
        /\ Len(constructed[i].calls) = 2
        /\ constructed[i].calls[1].obj # constructed[i].calls[2].obj
        /\ included["AlphaPlugin"] # <<>>
        /\ \E e \in StoredExtensions :
              e.plugin = constructed[i].plugin /\ e.from_plugin

(* --------------------- subscribing during a dispatch ------------------- *)

\* C26: a listener running in the dispatch of EXTENSION_REGISTERED for an
\* extension X of endpoint E calls subscribe(E, cb2) with call_with_existing
\* true: cb2 is given X exactly once in all, and the listeners registered
\* before the dispatch are each given X exactly once. In the state in which the
\* subscribe returns cb2 has X once; no listener is ever given an extension
\* twice; and when the add_extension that stored X returns, every listener of
\* E that is still installed, old or new, has X exactly once.
C26_SubscribeDuringDispatch ==
    /\ (/\ last.op = "subscribe" /\ last.outcome = "ok" /\ last.call_with_existing
        /\ Len(stack) >= 2
        /\ Top.op = "callback"
        /\ stack[Len(stack) - 1].op = "dispatch"
        /\ last.endpoint = Top.ext.endpoint) =>
           /\ listeners[Len(listeners)].endpoint = last.endpoint
           /\ Occurrences(got[Len(listeners)], Top.ext) = 1
           /\ Len(listeners) \notin Range(stack[Len(stack) - 1].rest)
    /\ \A h \in 1..Len(listeners) : \A i, j \in 1..Len(got[h]) :
           i # j => got[h][i] # got[h][j]
    /\ (last.op = "add_extension" /\ last.outcome = "ok") =>
           \A u \in last.stored : \A h \in 1..Len(listeners) :
               (listeners[h].endpoint = u /\ ~listeners[h].removed) =>
                   Occurrences(got[h], StoredExtension(last, u)) = 1

\* The subscribe that a listener called during the dispatch for X on the same
\* endpoint has returned; another listener was installed before the dispatch.
C26_Witness ==
    /\ last.op = "subscribe" /\ last.outcome = "ok" /\ last.call_with_existing
    /\ Len(stack) >= 2
    /\ Top.op = "callback"
    /\ stack[Len(stack) - 1].op = "dispatch"
    /\ last.endpoint = Top.ext.endpoint
    /\ Len(listeners) >= 3
    /\ Occurrences(got[Len(listeners)], Top.ext) = 1
    /\ \E h \in 1..(Len(listeners) - 1) :
          /\ listeners[h].endpoint = last.endpoint
          /\ h \in Range(stack[Len(stack) - 1].rest)

(* ----------------------- the storage of an endpoint -------------------- *)

\* The identity of an extension object: the wrapped class of a WrappedClass,
\* the object itself otherwise.
Identity(obj) == IF ObjAttrs(obj).klass # None THEN ObjAttrs(obj).klass ELSE obj

\* C27: in every reachable state, for every endpoint: no two extensions of its
\* sequence have the same object identity, its object list is the objects of
\* the sequence in the same order, and its set of seen identities has exactly
\* one entry for each stored extension.
C27_StorageConsistent ==
    \A u \in DOMAIN endpoints :
        LET st == endpoints[u]
        IN  /\ \A i, j \in 1..Len(st.extensions) :
                  i # j => Identity(st.extensions[i].obj) # Identity(st.extensions[j].obj)
            /\ st.extension_objects_list =
                  [i \in 1..Len(st.extensions) |-> st.extensions[i].obj]
            /\ st.extension_obj_ids_set =
                  {Identity(st.extensions[i].obj) : i \in 1..Len(st.extensions)}
            /\ Cardinality(st.extension_obj_ids_set) = Len(st.extensions)

\* A second WrappedClass of a class whose first wrapper is stored was turned
\* down.
C27_Witness ==
    /\ last.op = "add_extension"
    /\ last.outcome = "raised"
    /\ last.error = "RuntimeError"
    /\ ObjAttrs(last.obj).klass # None
    /\ "E1" \in DOMAIN endpoints
    /\ Len(endpoints["E1"].extensions) = 1
    /\ last.obj \notin Range(endpoints["E1"].extension_objects_list)
    /\ Identity(last.obj) \in endpoints["E1"].extension_obj_ids_set

(* ------------------------ the predicate of an Endpoint ----------------- *)

\* C28: the predicate of an endpoint is chosen by priority: the explicit
\* include_condition if given (here: the object has a teardown method), else
\* "is an instance of instance_class" if that is given, else "wraps a subclass
\* of wrapped_subclass" if that is given, else every object is accepted. For
\* every combination of the three fields exactly one of them decides, and the
\* fields below it have no say.
C28_PredicateByPriority ==
    verdict.obj # None =>
        LET a == ObjAttrs(verdict.obj)
            accepted == verdict.result = "True"
            explicit == made.include_condition # None
            byclass == ~explicit /\ made.instance_class # None
            bywrap == ~explicit /\ ~byclass /\ made.wrapped_subclass # None
        IN  /\ explicit => (accepted <=> a.teardown)
            /\ byclass => (accepted <=> made.instance_class \in Mro(a.class))
            /\ bywrap => (accepted <=>
                            (a.klass # None /\ made.wrapped_subclass \in Mro(a.klass)))
            /\ (~explicit /\ ~byclass /\ ~bywrap) => accepted
            /\ (explicit \/ byclass) => verdict.result \in {"True", "False"}

\* An endpoint given all three fields has turned down an object that its
\* wrapped_subclass alone would have accepted.
C28_Witness ==
    /\ made.include_condition = "has_teardown"
    /\ made.instance_class = "Shape"
    /\ made.wrapped_subclass = "Shape"
    /\ verdict.obj = "w1"
    /\ verdict.result = "False"

(* ---------------------------- bind_listener ---------------------------- *)

\* C29: bind_listener raises MissingMethodError in the call itself whenever the
\* object lacks the method on_event_<name> of at least one event of the list,
\* no dispatch being needed for it; when the object has all the methods, the
\* call registers exactly one listener for each distinct event of the list and
\* returns one (event, handle) pair for each.
C29_BindListenerFailsFast ==
    bindLast.op = "bind_listener" =>
        LET events == Range(bindLast.events_list)
            lacks == \E e \in events : e \notin Methods(bindLast.obj)
            handles == bindLast.handles
        IN  /\ lacks => /\ bindLast.outcome = "raised"
                        /\ bindLast.error = "MissingMethodError"
            /\ ~lacks =>
                  /\ bindLast.outcome = "ok"
                  /\ Len(handles) = Cardinality(events)
                  /\ {handles[i].event : i \in 1..Len(handles)} = events
                  /\ Len(eq_listeners) = bindLast.listeners0 + Cardinality(events)
                  /\ {handles[i].handle : i \in 1..Len(handles)} =
                         (bindLast.listeners0 + 1)..Len(eq_listeners)
                  /\ \A i \in 1..Len(handles) :
                         /\ eq_listeners[handles[i].handle].event = handles[i].event
                         /\ eq_listeners[handles[i].handle].obj = bindLast.obj
                         /\ ~eq_listeners[handles[i].handle].removed

\* A call was given the same event twice and an object that has the method,
\* and registered one listener, after a call for another object had registered
\* one.
C29_Witness ==
    /\ bindLast.op = "bind_listener"
    /\ bindLast.outcome = "ok"
    /\ Len(bindLast.events_list) = 2
    /\ bindLast.events_list[1] = bindLast.events_list[2]
    /\ Len(bindLast.handles) = 1
    /\ nbinds = 2
    /\ bindLast.listeners0 = 1
    /\ eq_listeners[1].obj = "status_bar"

\* C32: when bind_listener raises MissingMethodError, the bus holds the same
\* listeners as before the call: none appended by the call remains.
C32_RaisedBindLeavesNoListener ==
    (bindLast.op = "bind_listener" /\ bindLast.outcome = "raised")
        => Len(eq_listeners) = bindLast.listeners0

\* C33: init_builtin_extensions raises the 'wrong UUID' error exactly for a
\* plugin whose pack UUID differs from the reserved builtin-plugin UUID, and
\* then stores nothing; a plugin with the reserved UUID gets past that check.
C33_WrongUuidIffUuidDiffers ==
    /\ last.op = "init_builtin_extensions" =>
          ((last.outcome = "raised" /\ last.error = "RuntimeError: wrong UUID")
              <=> pack_uuid(last.plugin) # BUILTIN_PLUGIN_UUID)
    /\ \A i \in DOMAIN initLog :
          pack_uuid(initLog[i].plugin) # BUILTIN_PLUGIN_UUID => initLog[i].stored = 0

\* C34: an add_endpoint call that raises leaves the registered endpoints and
\* the deferred builtin list as they were before the call.
C34_RaisedAddEndpointHasNoEffect ==
    [][(last'.op = "add_endpoint" /\ last'.outcome = "raised" /\ last' # last)
          => UNCHANGED <<endpoints, builtin_extensions>>]_vars

\* The object is stored as an extension on at least one endpoint.
StoredSomewhere(obj) ==
    \E u \in DOMAIN endpoints : obj \in Range(endpoints[u].extension_objects_list)

\* C36: between calls, every object tracked for teardown is stored as an
\* extension on at least one endpoint, and Extensions.teardown tears down
\* only objects that are stored on an endpoint.
C36_TrackedOnlyIfStored ==
    /\ stack = <<>> => \A obj \in Range(teardown_objs) : StoredSomewhere(obj)
    /\ last.op = "teardown" => \A obj \in Range(last.torn_down) : StoredSomewhere(obj)

\* C35: subscribe(E, cb) with call_with_existing false raises exactly when E
\* already holds an extension; the raising call invokes cb zero times and adds
\* no listener, and on an endpoint without extensions the call appends its
\* listener without having invoked cb.
C35_SubscribeWithoutExisting ==
    /\ [](last.op = "subscribe" /\ ~last.call_with_existing =>
            /\ last.outcome \in {"raised", "ok"}
            /\ last.outcome = "raised" <=> last.pre # <<>>
            /\ last.delivered = <<>>
            /\ last.outcome = "ok" =>
                  /\ listeners # <<>>
                  /\ listeners[Len(listeners)] =
                        [endpoint |-> last.endpoint, cb |-> last.cb, removed |-> FALSE]
                  /\ subscription_handles[Len(subscription_handles)] = Len(listeners)
                  /\ got[Len(listeners)] = <<>>)
    /\ [][(last'.op = "subscribe" /\ ~last'.call_with_existing) =>
             IF last'.outcome = "raised"
             THEN /\ UNCHANGED <<listeners, subscription_handles, got, dispatched>>
                  /\ Len(stack') <= Len(stack)
             ELSE /\ Len(listeners') = Len(listeners) + 1
                  /\ Len(stack') < Len(stack)]_vars

\* A subscribe without call_with_existing raised on an endpoint that holds an
\* extension, after an earlier one had installed its listener on that endpoint
\* while it was empty.
C35_Witness ==
    /\ last.op = "subscribe"
    /\ ~last.call_with_existing
    /\ last.outcome = "raised"
    /\ last.pre # <<>>
    /\ \E h \in DOMAIN listeners :
          listeners[h].endpoint = last.endpoint /\ got[h] = <<>>

\* The positions of the stored extensions of the endpoint that have the name.
NamedPositions(st, name) ==
    {i \in DOMAIN st.extensions : ExtensionName(st.extensions[i].obj) = name}

\* C37: for every endpoint, the name map has exactly the display names of the
\* stored extensions as its keys, each name maps to the object of the latest
\* stored extension with that name, and every value is in the object list.
C37_NameMapLatestPerName ==
    \A u \in DOMAIN endpoints :
        LET st == endpoints[u]
        IN  /\ DOMAIN st.extension_objects_dict =
                  {ExtensionName(st.extensions[i].obj) : i \in DOMAIN st.extensions}
            /\ \A name \in DOMAIN st.extension_objects_dict :
                  /\ \E i \in NamedPositions(st, name) :
                        /\ \A j \in NamedPositions(st, name) : j <= i
                        /\ st.extension_objects_dict[name] = st.extensions[i].obj
                  /\ st.extension_objects_dict[name] \in Range(st.extension_objects_list)

\* An endpoint stores two extensions with the same display name, and the name
\* map holds the later of the two objects.
C37_Witness ==
    \E u \in DOMAIN endpoints :
        LET st == endpoints[u]
        IN  \E i, j \in DOMAIN st.extensions :
                /\ i < j
                /\ ExtensionName(st.extensions[i].obj) = ExtensionName(st.extensions[j].obj)
                /\ st.extensions[i].obj # st.extensions[j].obj
                /\ st.extension_objects_dict[ExtensionName(st.extensions[j].obj)]
                       = st.extensions[j].obj

\* C31: in a teardown of the application scope, no object has its teardown
\* method invoked more than once.
C31_AppTeardownHooksOnce ==
    last.op = "scope_teardown" =>
        \A x \in Range(last.torn_down) : Occurrences(last.torn_down, x) = 1

====
